---------------------------- MODULE Spec2Model ----------------------------
(* Model of src/mcp_server/performance_optimizer.py: the TTL-LRU cache   *)
(* (class LRUCache) and the components built on it.                      *)
EXTENDS Integers, Sequences, FiniteSets, TLC

(* ---------------------------------------------------------------------- *)
(* Bounds of the model                                                    *)
(* ---------------------------------------------------------------------- *)
MaxTime == 2          \* time.time() ranges over 0..MaxTime
MaxGets == 2          \* at most this many get() calls are counted
MaxEvictions == 1     \* at most this many evictions are counted
MaxRequests == 2     \* at most this many optimize_request calls are made
MaxRecords == 2      \* at most this many record_metric calls are made

Maxsizes == {0, 1, 2} \* the values of the constructor's maxsize
Ttls == {2}           \* the values of the constructor's ttl

Keys == {"a", "b", "c"}
Values == {1, 2}
None == "None"        \* Python's None, where a string is expected
Nothing == <<>>       \* Python's None, where a value may be absent
Some(x) == <<x>>      \* a value that is present
NoError == "ok"       \* the call returned normally

Threads == {"t1", "t2"}

VARIABLES
    lru,        \* one LRUCache instance: maxsize, ttl, cache, access_order, timestamps, stats
    now,        \* the value time.time() returns
    last,       \* what the last call did: operation, key, return value, exception
    lock,       \* the owner of lru's _lock, or None
    frame,      \* per thread: the call it is in, its locals and the line it is at
    serial,     \* lru as the calls made so far leave it when run one after the other
    optimizer,  \* the CursorAIOptimizer instance: its components and their caches
    request,    \* the last optimize_request call: its arguments and what it returned
    answer,     \* the last call of a component on its own: its arguments and its outcome
    monitor_lock, \* the owner of the performance monitor's _lock, or None
    cache_lock, \* per cache of the optimizer: the owner of its _lock, or None
    recorder,   \* per thread: the call on shared state it is in, its locals and the line it is at
    recorded,   \* the metrics the monitor held at the start and those appended since, in order
    reading     \* what the last get_performance_summary or get_performance_stats call returned

threaded == <<lock, frame, serial, cache_lock>>
pipeline == <<optimizer, request, answer>>
monitoring == <<monitor_lock, recorder, recorded, reading>>
vars == <<lru, now, last, lock, frame, serial, optimizer, request, answer, monitor_lock, cache_lock,
          recorder, recorded, reading>>

(* ---------------------------------------------------------------------- *)
(* class LRUCache                                                         *)
(* ---------------------------------------------------------------------- *)
EmptyDict == [k \in {} |-> None]

\* del d[key]
DictDel(d, key) == [k \in (DOMAIN d) \ {key} |-> d[k]]

\* d[key] = value
DictSet(d, key, value) == [k \in (DOMAIN d) \cup {key} |-> IF k = key THEN value ELSE d[k]]

InDeque(s, x) == \E i \in 1..Len(s) : s[i] = x

\* a remove that leaves the deque as it is
deque_remove_nothing(s, x) == s

\* deque.remove(x): removes the first occurrence of x
deque_remove(s, x) ==
    LET i == CHOOSE i \in 1..Len(s) : s[i] = x /\ \A j \in 1..(i-1) : s[j] # x
    IN  SubSeq(s, 1, i-1) \o SubSeq(s, i+1, Len(s))

\* LRUCache.__init__
LRUCache(maxsize, ttl) ==
    [maxsize |-> maxsize,
     ttl |-> ttl,
     cache |-> EmptyDict,
     access_order |-> <<>>,
     timestamps |-> EmptyDict,
     stats |-> [hits |-> 0, misses |-> 0, evictions |-> 0, expired |-> 0]]

\* LRUCache._remove_key: deletes the key from cache and timestamps only
remove_key(c, key) ==
    IF key \in DOMAIN c.cache
    THEN [c EXCEPT !.cache = DictDel(@, key), !.timestamps = DictDel(@, key)]
    ELSE c

\* what a call of get or put hands back: the new cache state, the return value,
\* the exception raised, the branch taken, and the entry an eviction popped
Result(c, ret, raised, path, evicted) ==
    [c |-> c, ret |-> ret, raised |-> raised, path |-> path, evicted |-> evicted]

\* get with the age test off by one: an entry of age exactly ttl counts as fresh
get_ageInclusive(c, key, current_time) ==
    IF key \in DOMAIN c.cache
    THEN IF current_time - c.timestamps[key] <= c.ttl
         THEN Result([c EXCEPT !.access_order = Append(deque_remove(@, key), key),
                               !.stats.hits = @ + 1],
                     Some(c.cache[key]), NoError, "hit", Nothing)
         ELSE Result([remove_key(c, key) EXCEPT !.stats.expired = @ + 1,
                                                !.stats.misses = @ + 1],
                     Nothing, NoError, "expired", Nothing)
    ELSE Result([c EXCEPT !.stats.misses = @ + 1], Nothing, NoError, "miss", Nothing)

\* LRUCache.get
get(c, key, current_time) ==
    IF key \in DOMAIN c.cache
    THEN IF current_time - c.timestamps[key] < c.ttl
         THEN IF ~InDeque(c.access_order, key)
              THEN Result(c, Nothing, "ValueError", "hit", Nothing)
              ELSE Result([c EXCEPT !.access_order = Append(deque_remove(@, key), key),
                                    !.stats.hits = @ + 1],
                          Some(c.cache[key]), NoError, "hit", Nothing)
         ELSE Result([remove_key(c, key) EXCEPT !.stats.expired = @ + 1,
                                                !.stats.misses = @ + 1],
                     Nothing, NoError, "expired", Nothing)
    ELSE Result([c EXCEPT !.stats.misses = @ + 1], Nothing, NoError, "miss", Nothing)

\* put_store that keeps the timestamp of an entry that is already there
put_store_keepTimestamp(c, key, value, current_time) ==
    [c EXCEPT !.cache = DictSet(@, key, value),
              !.timestamps = IF key \in DOMAIN @ THEN @ ELSE DictSet(@, key, current_time),
              !.access_order = Append(@, key)]

\* the writes that end LRUCache.put (lines 87-89)
put_store(c, key, value, current_time) ==
    [c EXCEPT !.cache = DictSet(@, key, value),
              !.timestamps = DictSet(@, key, current_time),
              !.access_order = Append(@, key)]

\* put that evicts an expired entry, when there is one, before the oldest one
put_expiredFirst(c, key, value, current_time) ==
    IF key \in DOMAIN c.cache
    THEN Result(put_store([c EXCEPT !.access_order = deque_remove(@, key)],
                          key, value, current_time),
                Nothing, NoError, "update", Nothing)
    ELSE IF Cardinality(DOMAIN c.cache) >= c.maxsize
         THEN IF c.access_order = <<>>
              THEN Result(c, Nothing, "IndexError", "evict", Nothing)
              ELSE LET dead == {k \in DOMAIN c.cache : current_time - c.timestamps[k] >= c.ttl}
                       oldest_key == IF dead # {} /\ \A k \in dead : InDeque(c.access_order, k)
                                     THEN CHOOSE k \in dead : TRUE
                                     ELSE Head(c.access_order)
                       c1 == remove_key([c EXCEPT !.access_order = deque_remove(@, oldest_key)],
                                        oldest_key)
                   IN  Result(put_store([c1 EXCEPT !.stats.evictions = @ + 1],
                                        key, value, current_time),
                              Nothing, NoError, "evict",
                              Some([key |-> oldest_key,
                                    timestamp |-> IF oldest_key \in DOMAIN c.timestamps
                                                  THEN Some(c.timestamps[oldest_key])
                                                  ELSE Nothing]))
         ELSE Result(put_store(c, key, value, current_time), Nothing, NoError, "insert", Nothing)

\* put that tests the size before it looks for the key: a present key stored
\* again into a full mapping costs the oldest entry
put_fullFirst(c, key, value, current_time) ==
    IF Cardinality(DOMAIN c.cache) >= c.maxsize
    THEN IF c.access_order = <<>>
         THEN Result(c, Nothing, "IndexError", "evict", Nothing)
         ELSE LET oldest_key == Head(c.access_order)
                  c1 == remove_key([c EXCEPT !.access_order = Tail(@)], oldest_key)
              IN  Result(put_store([c1 EXCEPT !.stats.evictions = @ + 1,
                                              !.access_order =
                                                  IF InDeque(@, key) /\ key \in DOMAIN c1.cache
                                                  THEN deque_remove(@, key) ELSE @],
                                   key, value, current_time),
                         Nothing, NoError, "evict",
                         Some([key |-> oldest_key,
                               timestamp |-> IF oldest_key \in DOMAIN c.timestamps
                                             THEN Some(c.timestamps[oldest_key])
                                             ELSE Nothing]))
    ELSE IF key \in DOMAIN c.cache
    THEN IF ~InDeque(c.access_order, key)
         THEN Result(c, Nothing, "ValueError", "update", Nothing)
         ELSE Result(put_store([c EXCEPT !.access_order = deque_remove(@, key)],
                               key, value, current_time),
                     Nothing, NoError, "update", Nothing)
    ELSE Result(put_store(c, key, value, current_time), Nothing, NoError, "insert", Nothing)

\* LRUCache.put
put(c, key, value, current_time) ==
    IF key \in DOMAIN c.cache
    THEN IF ~InDeque(c.access_order, key)
         THEN Result(c, Nothing, "ValueError", "update", Nothing)
         ELSE Result(put_store([c EXCEPT !.access_order = deque_remove(@, key)],
                               key, value, current_time),
                     Nothing, NoError, "update", Nothing)
    ELSE IF Cardinality(DOMAIN c.cache) >= c.maxsize
         THEN IF c.access_order = <<>>
              THEN Result(c, Nothing, "IndexError", "evict", Nothing)
              ELSE LET oldest_key == Head(c.access_order)
                       c1 == remove_key([c EXCEPT !.access_order = Tail(@)], oldest_key)
                   IN  Result(put_store([c1 EXCEPT !.stats.evictions = @ + 1],
                                        key, value, current_time),
                              Nothing, NoError, "evict",
                              Some([key |-> oldest_key,
                                    timestamp |-> IF oldest_key \in DOMAIN c.timestamps
                                                  THEN Some(c.timestamps[oldest_key])
                                                  ELSE Nothing]))
         ELSE Result(put_store(c, key, value, current_time), Nothing, NoError, "insert", Nothing)

\* clear as it would be if it started the counters afresh
clear_resetStats(c) ==
    [c EXCEPT !.cache = EmptyDict, !.timestamps = EmptyDict, !.access_order = <<>>,
              !.stats = [hits |-> 0, misses |-> 0, evictions |-> 0, expired |-> 0]]

\* LRUCache.clear
clear(c) ==
    [c EXCEPT !.cache = EmptyDict, !.timestamps = EmptyDict, !.access_order = <<>>]

\* LRUCache.get_stats (hit_rate is reported as the pair hits, total_requests)
get_stats(c) ==
    LET total_requests == c.stats.hits + c.stats.misses
    IN  [hits |-> c.stats.hits, misses |-> c.stats.misses,
         evictions |-> c.stats.evictions, expired |-> c.stats.expired,
         total_requests |-> total_requests,
         hit_rate |-> IF total_requests > 0 THEN <<c.stats.hits, total_requests>> ELSE <<0, 1>>,
         cache_size |-> Cardinality(DOMAIN c.cache)]

(* ---------------------------------------------------------------------- *)
(* Text.  A string is a sequence of lines and a line a sequence of tokens *)
(* (words or fixed phrases) separated by single spaces; "" is <<>>.       *)
(* ---------------------------------------------------------------------- *)
LongBlock == "<5000 characters x>"     \* a run of 5000 letters without a keyword
Surrogate == "<lone surrogate>"        \* a character str.encode() rejects
JsonSuffix == "Provide response in structured JSON format with clear sections for analysis, recommendations, and implementation steps."
ActionSuffix == "Focus on actionable, production-ready solutions with specific commands and configurations."
SloSuffix == "Include SLO impact analysis and error budget implications in your response."
MetricsSuffix == "Provide quantitative metrics and measurable targets in your analysis."
CostSuffix == "Include cost implications and optimization opportunities in your recommendations."
SecuritySuffix == "Address security, compliance, and governance considerations."
DeveloperSuffix == "Prioritize developer experience and productivity in your recommendations."
SelfServiceSuffix == "Focus on self-service capabilities and automation opportunities."

CommaJoin == "<,>"                     \* the ", " of ', '.join, written between two spaces

\* len(token)
StrLen(w) ==
    CASE w = "" -> 0
      [] w = CommaJoin -> 0
      [] w = LongBlock -> 5000
      [] w = Surrogate -> 1
      [] w = JsonSuffix -> 119
      [] w = ActionSuffix -> 90
      [] w = SloSuffix -> 75
      [] w = MetricsSuffix -> 69
      [] w = CostSuffix -> 81
      [] w = SecuritySuffix -> 60
      [] w = DeveloperSuffix -> 73
      [] w = SelfServiceSuffix -> 64
      [] w \in {"please", "Please"} -> 6
      [] w \in {"could you", "Could you"} -> 9
      [] w = "in order to" -> 11
      [] w = "basically" -> 9
      [] w \in {"analyze", "Analyze"} -> 7
      [] w = "recommend" -> 9
      [] w = "error" -> 5
      [] w = "cpu" -> 3
      [] w = "my" -> 2
      [] w = "pipeline" -> 8
      [] w = "logs" -> 4
      [] w = "to" -> 2
      [] w = "Key Information:" -> 16
      [] w = "Important Details:" -> 18
      [] w = "- services:" -> 11
      [] w = "- metrics:" -> 10
      [] w = "- errors:" -> 9
      [] w = "- recommendations:" -> 18
      [] w = "-" -> 1

\* the keywords of the program's lists that occur in token.lower()
Keywords(w) ==
    CASE w \in {"please", "Please"} -> {"please"}
      [] w \in {"could you", "Could you"} -> {"could you"}
      [] w = "in order to" -> {"in order to"}
      [] w = "basically" -> {"basically"}
      [] w \in {"analyze", "Analyze"} -> {"analyze"}
      [] w = "recommend" -> {"recommend"}
      [] w = "error" -> {"error"}
      [] w = "cpu" -> {"cpu"}
      [] w = "- services:" -> {"service"}
      [] w = "- errors:" -> {"error"}
      [] w = "- recommendations:" -> {"recommend"}
      [] w = JsonSuffix -> {"json", "recommend"}
      [] w = SloSuffix -> {"error"}
      [] w = CostSuffix -> {"recommend", "cost", "optimization"}
      [] w = SecuritySuffix -> {"security", "compliance"}
      [] w = DeveloperSuffix -> {"recommend", "developer"}
      [] w = SelfServiceSuffix -> {"service"}
      [] OTHER -> {}

RECURSIVE Flatten(_)
\* the tokens of a text, in order
Flatten(text) == IF text = <<>> THEN <<>> ELSE Head(text) \o Flatten(Tail(text))

RECURSIVE SumLen(_)
SumLen(ws) == IF ws = <<>> THEN 0 ELSE StrLen(Head(ws)) + SumLen(Tail(ws))

\* len(line): the tokens and the spaces between them
LineLen(line) == IF line = <<>> THEN 0 ELSE SumLen(line) + Len(line) - 1

RECURSIVE SumLineLen(_)
SumLineLen(text) == IF text = <<>> THEN 0 ELSE LineLen(Head(text)) + SumLineLen(Tail(text))

\* len(text): the lines and the newlines between them
TextLen(text) == IF text = <<>> THEN 0 ELSE SumLineLen(text) + Len(text) - 1

\* keyword in text.lower()
Mentions(text, keyword) ==
    \E i \in 1..Len(Flatten(text)) : keyword \in Keywords(Flatten(text)[i])

\* str.encode(): fails on a lone surrogate
Encodable(text) == \A i \in 1..Len(Flatten(text)) : Flatten(text)[i] # Surrogate

\* text.replace(phrase, replacement), which matches the case of phrase exactly;
\* replacement is a sequence of tokens
ReplaceInLine(line, phrase, replacement) ==
    LET RECURSIVE Go(_)
        Go(ws) == IF ws = <<>> THEN <<>>
                  ELSE (IF Head(ws) = phrase THEN replacement ELSE <<Head(ws)>>) \o Go(Tail(ws))
    IN  Go(line)

Replace(text, phrase, replacement) ==
    [i \in 1..Len(text) |-> ReplaceInLine(text[i], phrase, replacement)]

\* line.replace(" word ", " "): an occurrence needs a space on either side, and
\* the space that ends one occurrence cannot start the next
RemoveInnerInLine(line, word) ==
    LET RECURSIVE Go(_, _)
        Go(i, spaceTaken) ==
            IF i > Len(line) THEN <<>>
            ELSE IF line[i] = word /\ i > 1 /\ i < Len(line) /\ ~spaceTaken
                 THEN Go(i + 1, TRUE)
                 ELSE <<line[i]>> \o Go(i + 1, FALSE)
    IN  Go(1, FALSE)

RemoveInner(text, word) == [i \in 1..Len(text) |-> RemoveInnerInLine(text[i], word)]

\* text += "\n\n" + suffix
AppendParagraph(text, suffix) == text \o << <<>>, <<suffix>> >>

\* " word " in text.lower()
InnerMentions(text, word) ==
    \E n \in 1..Len(text) : \E i \in 2..(Len(text[n]) - 1) : word \in Keywords(text[n][i])

\* ' '.join(text.split())
CollapseWhitespace(text) ==
    LET words == SelectSeq(Flatten(text), LAMBDA w : w # "")
    IN  IF words = <<>> THEN <<>> ELSE <<words>>

RECURSIVE LStrip(_)
LStrip(line) == IF line # <<>> /\ Head(line) = "" THEN LStrip(Tail(line)) ELSE line

RECURSIVE RStrip(_)
RStrip(line) ==
    IF line # <<>> /\ line[Len(line)] = "" THEN RStrip(SubSeq(line, 1, Len(line) - 1)) ELSE line

\* line.strip()
Strip(line) == RStrip(LStrip(line))

\* hashlib.md5(f"{a}:{b}:{c}".encode()).hexdigest(): the digest stands for the
\* formatted string, distinct strings having distinct digests
md5(parts) == parts

(* ---------------------------------------------------------------------- *)
(* class PromptOptimizer                                                  *)
(* ---------------------------------------------------------------------- *)
OptimizationCacheMaxsize == 500
OptimizationCacheTtl == 7200
PerformanceHistoryMaxlen == 1000

redundant_phrases ==
    <<"please", "could you", "would you mind", "if possible",
      "I need you to", "can you help me", "I would like">>
filler_words ==
    <<"actually", "basically", "essentially", "literally",
      "obviously", "definitely", "certainly">>
verbose_patterns ==
    << <<"in order to", "to">>, <<"due to the fact that", "because">>,
       <<"at this point in time", "now">>, <<"in the event that", "if">>,
       <<"for the purpose of", "for">> >>

\* deque(maxlen=n).append(x)
deque_append(s, x, maxlen) ==
    IF Len(s) >= maxlen THEN Append(Tail(s), x) ELSE Append(s, x)

\* PerformanceMetrics(...): the clock stands still during a call, so a duration is 0
PerformanceMetrics(operation, cache_hit, timestamp, success, error_message) ==
    [operation |-> operation, duration |-> 0, memory_usage |-> 0, cpu_usage |-> 0,
     cache_hit |-> cache_hit, timestamp |-> timestamp, success |-> success,
     error_message |-> error_message]

\* PromptOptimizer.__init__
PromptOptimizer ==
    [optimization_cache |-> LRUCache(OptimizationCacheMaxsize, OptimizationCacheTtl),
     performance_history |-> <<>>]

\* the text and the log of applied rewrites that the three loops work on
Rewrite(optimized, applied) == [optimized |-> optimized, optimizations_applied |-> applied]

RECURSIVE remove_redundant(_, _)
\* lines 157-160, from the i-th phrase on
remove_redundant(w, i) ==
    IF i > Len(redundant_phrases) THEN w
    ELSE LET phrase == redundant_phrases[i]
         IN  IF Mentions(w.optimized, phrase)
             THEN remove_redundant(Rewrite(Replace(w.optimized, phrase, <<"">>),
                                           Append(w.optimizations_applied,
                                                  <<"removed_redundant", phrase>>)), i + 1)
             ELSE remove_redundant(w, i + 1)

RECURSIVE remove_filler(_, _)
\* lines 163-167, from the i-th word on
remove_filler(w, i) ==
    IF i > Len(filler_words) THEN w
    ELSE LET word == filler_words[i]
         IN  IF InnerMentions(w.optimized, word)
             THEN remove_filler(Rewrite(RemoveInner(w.optimized, word),
                                        Append(w.optimizations_applied,
                                               <<"removed_filler", word>>)), i + 1)
             ELSE remove_filler(w, i + 1)

RECURSIVE simplify_verbose(_, _)
\* lines 170-173, from the i-th pattern on
simplify_verbose(w, i) ==
    IF i > Len(verbose_patterns) THEN w
    ELSE LET verbose == verbose_patterns[i][1]
             concise == verbose_patterns[i][2]
         IN  IF Mentions(w.optimized, verbose)
             THEN simplify_verbose(Rewrite(Replace(w.optimized, verbose, <<concise>>),
                                           Append(w.optimizations_applied,
                                                  <<"simplified", verbose, concise>>)), i + 1)
             ELSE simplify_verbose(w, i + 1)

\* PromptOptimizer._optimize_devops_prompt
optimize_devops_prompt(prompt) ==
    LET p1 == IF Mentions(prompt, "analyze") /\ ~Mentions(prompt, "json")
              THEN AppendParagraph(prompt, JsonSuffix) ELSE prompt
    IN  IF Mentions(p1, "recommend") THEN AppendParagraph(p1, ActionSuffix) ELSE p1

\* PromptOptimizer._optimize_sre_prompt
optimize_sre_prompt(prompt) ==
    LET p1 == IF Mentions(prompt, "incident") \/ Mentions(prompt, "outage")
              THEN AppendParagraph(prompt, SloSuffix) ELSE prompt
    IN  IF Mentions(p1, "performance") THEN AppendParagraph(p1, MetricsSuffix) ELSE p1

\* PromptOptimizer._optimize_cloud_prompt
optimize_cloud_prompt(prompt) ==
    LET p1 == IF Mentions(prompt, "architecture") \/ Mentions(prompt, "design")
              THEN AppendParagraph(prompt, CostSuffix) ELSE prompt
    IN  IF Mentions(p1, "migration") \/ Mentions(p1, "deployment")
        THEN AppendParagraph(p1, SecuritySuffix) ELSE p1

\* PromptOptimizer._optimize_platform_prompt
optimize_platform_prompt(prompt) ==
    LET p1 == IF Mentions(prompt, "platform") \/ Mentions(prompt, "developer")
              THEN AppendParagraph(prompt, DeveloperSuffix) ELSE prompt
    IN  IF Mentions(p1, "tool") \/ Mentions(p1, "service")
        THEN AppendParagraph(p1, SelfServiceSuffix) ELSE p1

\* lines 176-187
apply_domain(w, domain) ==
    IF domain = "devops"
    THEN Rewrite(optimize_devops_prompt(w.optimized),
                 Append(w.optimizations_applied, <<"applied_optimizations", "devops">>))
    ELSE IF domain = "sre"
    THEN Rewrite(optimize_sre_prompt(w.optimized),
                 Append(w.optimizations_applied, <<"applied_optimizations", "sre">>))
    ELSE IF domain = "cloud"
    THEN Rewrite(optimize_cloud_prompt(w.optimized),
                 Append(w.optimizations_applied, <<"applied_optimizations", "cloud">>))
    ELSE IF domain = "platform"
    THEN Rewrite(optimize_platform_prompt(w.optimized),
                 Append(w.optimizations_applied, <<"applied_optimizations", "platform">>))
    ELSE w

\* what a component call hands back: its new state, the returned pair and the
\* exception raised
Outcome(state, ret, raised) == [state |-> state, ret |-> ret, raised |-> raised]

\* lines 192-223 of optimize_prompt: measure, cache and record the rewritten prompt
optimize_prompt_store(po, prompt, domain, current_time, cache_key, optimizations_applied, optimized) ==
    LET original_length == TextLen(prompt)
        optimized_length == TextLen(optimized)
        metrics == [original_length |-> original_length,
                    optimized_length |-> optimized_length,
                    compression_ratio |-> <<original_length - optimized_length, original_length>>,
                    optimizations_applied |-> optimizations_applied,
                    domain |-> domain]
        stored == put(po.optimization_cache, cache_key,
                      [optimized_prompt |-> optimized, metrics |-> metrics], current_time)
    IN  IF original_length = 0 THEN Outcome(po, Nothing, "ZeroDivisionError")
        ELSE IF stored.raised # NoError THEN Outcome(po, Nothing, stored.raised)
        ELSE Outcome([po EXCEPT !.optimization_cache = stored.c,
                                !.performance_history =
                                    deque_append(@, PerformanceMetrics("prompt_optimization", FALSE,
                                                                       current_time, TRUE, Nothing),
                                                 PerformanceHistoryMaxlen)],
                     Some(<<optimized, metrics>>), NoError)

\* lines 153-190 of optimize_prompt: the rewrite steps; w is the outcome of the
\* three loops and the domain step
optimize_prompt_rewrite(po, prompt, domain, current_time, cache_key, w) ==
    optimize_prompt_store(po, prompt, domain, current_time, cache_key,
                          w.optimizations_applied, CollapseWhitespace(w.optimized))

\* optimize_prompt_lookup as it would be if a cached result were not returned
optimize_prompt_lookup_recomputed(po, prompt, domain, current_time, cache_key, looked) ==
    IF looked.raised # NoError
    THEN Outcome([po EXCEPT !.optimization_cache = looked.c], Nothing, looked.raised)
    ELSE optimize_prompt_rewrite([po EXCEPT !.optimization_cache = looked.c],
                                 prompt, domain, current_time, cache_key,
                                 apply_domain(simplify_verbose(remove_filler(remove_redundant(
                                     Rewrite(prompt, <<>>), 1), 1), 1), domain))

\* lines 146-148 of optimize_prompt: looked is what optimization_cache.get returned
optimize_prompt_lookup(po, prompt, domain, current_time, cache_key, looked) ==
    IF looked.raised # NoError
    THEN Outcome([po EXCEPT !.optimization_cache = looked.c], Nothing, looked.raised)
    ELSE IF looked.ret # Nothing
    THEN Outcome([po EXCEPT !.optimization_cache = looked.c],
                 Some(<<looked.ret[1].optimized_prompt, looked.ret[1].metrics>>), NoError)
    ELSE optimize_prompt_rewrite([po EXCEPT !.optimization_cache = looked.c],
                                 prompt, domain, current_time, cache_key,
                                 apply_domain(simplify_verbose(remove_filler(remove_redundant(
                                     Rewrite(prompt, <<>>), 1), 1), 1), domain))

\* PromptOptimizer.optimize_prompt
optimize_prompt(po, prompt, domain, current_time) ==
    IF ~Encodable(prompt) \/ domain = Surrogate
    THEN Outcome(po, Nothing, "UnicodeEncodeError")
    ELSE optimize_prompt_lookup(po, prompt, domain, current_time, md5(<<prompt, domain>>),
                                get(po.optimization_cache, md5(<<prompt, domain>>), current_time))

(* ---------------------------------------------------------------------- *)
(* class ContextCompressor                                                *)
(* ---------------------------------------------------------------------- *)
CompressionCacheMaxsize == 200
CompressionCacheTtl == 1800
TargetReduction == <<3, 10>>           \* target_reduction = 0.3
ConciseSentence == 200
EssentialLine == 10

important_indicators ==
    {"error", "critical", "high", "urgent", "failed", "down",
     "performance", "latency", "throughput", "availability",
     "security", "vulnerability", "breach", "compliance",
     "cost", "optimization", "scaling", "capacity"}

\* ContextCompressor.__init__
ContextCompressor ==
    [compression_cache |-> LRUCache(CompressionCacheMaxsize, CompressionCacheTtl)]

\* s[:n]
Take(s, n) == SubSeq(s, 1, IF Len(s) < n THEN Len(s) ELSE n)

RECURSIVE Dedup(_)
\* list(set(items)): the distinct items (the texts of the model give a category
\* at most one distinct item, so the order a set yields them in does not show)
Dedup(items) ==
    IF items = <<>> THEN <<>>
    ELSE LET rest == Dedup(Tail(items))
         IN  IF InDeque(rest, Head(items)) THEN rest ELSE <<Head(items)>> \o rest

\* text.strip(): the text without its leading and trailing blank lines
StripText(text) ==
    LET solid == {n \in 1..Len(text) : Strip(text[n]) # <<>>}
        first == CHOOSE n \in solid : \A m \in solid : n <= m
        final == CHOOSE n \in solid : \A m \in solid : m <= n
    IN  IF solid = {} THEN <<>>
        ELSE [n \in 1..(final - first + 1) |->
                 IF n = 1 /\ first = final THEN Strip(text[first])
                 ELSE IF n = 1 THEN LStrip(text[first])
                 ELSE IF n = final - first + 1 THEN RStrip(text[final])
                 ELSE text[first + n - 1]]

\* ContextCompressor._extract_key_phrases (no token of the model holds a '.',
\* so text.split('.') is the text itself)
extract_key_phrases(text) ==
    LET sentence == StripText(text)
        key_phrases == IF /\ \E indicator \in important_indicators : Mentions(sentence, indicator)
                          /\ TextLen(sentence) < ConciseSentence
                       THEN <<sentence>> ELSE <<>>
    IN  Take(key_phrases, 15)

\* any(keyword in line.lower() for keyword in keywords)
LineMentions(line, keywords) == \E k \in keywords : Mentions(<<line>>, k)

\* line.startswith('-') or line.startswith('*')
IsBullet(line) ==
    Head(line) \in {"-", "*", "- services:", "- metrics:", "- errors:", "- recommendations:"}

\* the lines of text, stripped, blank lines skipped (lines 452-456)
StrippedLines(text) ==
    LET RECURSIVE Go(_)
        Go(n) == IF n > Len(text) THEN <<>>
                 ELSE (IF Strip(text[n]) # <<>> THEN <<Strip(text[n])>> ELSE <<>>) \o Go(n + 1)
    IN  Go(1)

\* ContextCompressor._extract_structured_info
extract_structured_info(text) ==
    LET lines == StrippedLines(text)
        service_lines == SelectSeq(lines, LAMBDA line : LineMentions(line, {"service"}))
        words == SelectSeq(Flatten(service_lines), LAMBDA w : w # "")
    IN  [services |-> Take(Dedup(SelectSeq(words, LAMBDA w :
                         "service" \in Keywords(w) /\ StrLen(w) > 7)), 5),
         metrics |-> Take(Dedup(SelectSeq(lines, LAMBDA line :
                         LineMentions(line, {"cpu", "memory", "disk", "network", "latency"}))), 5),
         errors |-> Take(Dedup(SelectSeq(lines, LAMBDA line :
                         LineMentions(line, {"error", "failed", "exception", "timeout"}))), 5),
         recommendations |-> Take(Dedup(SelectSeq(lines, LAMBDA line :
                         IsBullet(line) \/ LineMentions(line, {"recommend"}))), 5)]

RECURSIVE JoinComma(_)
\* ', '.join(items), each item a line (services: a word)
JoinComma(items) ==
    IF items = <<>> THEN <<>>
    ELSE IF Len(items) = 1 THEN Head(items)
    ELSE Head(items) \o <<CommaJoin>> \o JoinComma(Tail(items))

\* lines 383-385 for one category: f"- {category}: {', '.join(items[:3])}"
category_part(label, items) ==
    IF items = <<>> THEN <<>> ELSE << <<label>> \o JoinComma(Take(items, 3)) >>

RECURSIVE phrase_parts(_)
\* line 390: f"- {phrase}" for each phrase
phrase_parts(key_phrases) ==
    IF key_phrases = <<>> THEN <<>>
    ELSE LET phrase == Head(key_phrases)
         IN  (IF phrase = <<>> THEN << <<"-", "">> >>
              ELSE << <<"-">> \o Head(phrase) >> \o Tail(phrase))
             \o phrase_parts(Tail(key_phrases))

\* ContextCompressor._aggressive_compress
aggressive_compress(text) ==
    LET replaced == Replace(Replace(Replace(text, "in order to", <<"to">>),
                                    "due to the fact that", <<"because">>),
                            "at this point in time", <<"now">>)
    IN  SelectSeq(replaced, LAMBDA line : LineLen(Strip(line)) > EssentialLine)

\* lines 394-420 of compress_context: meet the target, measure and cache
compress_context_store(cc, context, current_time, cache_key, key_phrases, compressed_parts) ==
    LET original_length == TextLen(context)
        \* 1 - len(compressed) / original_length < target_reduction
        short_of_target ==
            TargetReduction[2] * (original_length - TextLen(compressed_parts))
                < TargetReduction[1] * original_length
        compressed == IF short_of_target THEN aggressive_compress(compressed_parts)
                      ELSE compressed_parts
        final_length == TextLen(compressed)
        metrics == [original_length |-> original_length,
                    compressed_length |-> final_length,
                    reduction_ratio |-> <<original_length - final_length, original_length>>,
                    target_reduction |-> TargetReduction,
                    key_phrases_count |-> Len(key_phrases),
                    structured_info_categories |-> 4]
        stored == put(cc.compression_cache, cache_key,
                      [compressed |-> compressed, metrics |-> metrics], current_time)
    IN  IF original_length = 0 THEN Outcome(cc, Nothing, "ZeroDivisionError")
        ELSE IF stored.raised # NoError THEN Outcome(cc, Nothing, stored.raised)
        ELSE Outcome([cc EXCEPT !.compression_cache = stored.c],
                     Some(<<compressed, metrics>>), NoError)

\* lines 377-392 of compress_context: the parts built from the extracted information
compress_context_build(cc, context, current_time, cache_key, key_phrases, structured_info) ==
    compress_context_store(cc, context, current_time, cache_key, key_phrases,
        << <<"Key Information:">> >>
        \o category_part("- services:",
                         [i \in 1..Len(structured_info.services) |-> <<structured_info.services[i]>>])
        \o category_part("- metrics:", structured_info.metrics)
        \o category_part("- errors:", structured_info.errors)
        \o category_part("- recommendations:", structured_info.recommendations)
        \o (IF key_phrases # <<>>
            THEN << <<>>, <<"Important Details:">> >> \o phrase_parts(Take(key_phrases, 10))
            ELSE <<>>))

\* lines 366-375 of compress_context: looked is what compression_cache.get returned
compress_context_lookup(cc, context, current_time, cache_key, looked) ==
    IF looked.raised # NoError
    THEN Outcome([cc EXCEPT !.compression_cache = looked.c], Nothing, looked.raised)
    ELSE IF looked.ret # Nothing
    THEN Outcome([cc EXCEPT !.compression_cache = looked.c],
                 Some(<<looked.ret[1].compressed, looked.ret[1].metrics>>), NoError)
    ELSE compress_context_build([cc EXCEPT !.compression_cache = looked.c],
                                context, current_time, cache_key,
                                extract_key_phrases(context), extract_structured_info(context))

\* ContextCompressor.compress_context, with the default target_reduction
compress_context(cc, context, current_time) ==
    IF ~Encodable(context)
    THEN Outcome(cc, Nothing, "UnicodeEncodeError")
    ELSE compress_context_lookup(cc, context, current_time, md5(<<context, TargetReduction>>),
                                 get(cc.compression_cache, md5(<<context, TargetReduction>>),
                                     current_time))

(* ---------------------------------------------------------------------- *)
(* class PerformanceMonitor and class CursorAIOptimizer                   *)
(* ---------------------------------------------------------------------- *)
MetricsHistoryMaxlen == 10000
GlobalCacheMaxsize == 2000
GlobalCacheTtl == 7200
CompressionThreshold == 5000

\* PerformanceMonitor.__init__
PerformanceMonitor == [metrics_history |-> <<>>]

\* record_metric as it would be on a history without a capacity
record_metric_unbounded(pm, metric) ==
    [pm EXCEPT !.metrics_history = Append(@, metric)]

\* PerformanceMonitor.record_metric (the alerts it raises are log lines only)
record_metric(pm, metric) ==
    [pm EXCEPT !.metrics_history = deque_append(@, metric, MetricsHistoryMaxlen)]

DefaultWindow == 3600                  \* time_window: int = 3600

\* the place of every element of data in sorted(data); sorted is stable, so
\* equal elements keep their order
places(data) ==
    [j \in 1..Len(data) |->
        Cardinality({k \in 1..Len(data) :
                        data[k] < data[j] \/ (data[k] = data[j] /\ k <= j)})]

\* the elements of data, each at its place
placed(data, place) ==
    [i \in 1..Len(data) |-> data[CHOOSE j \in 1..Len(data) : place[j] = i]]

\* sorted(data); the list and the places are given a name each, so that they
\* are worked out once
sorted(data) ==
    CHOOSE sorted_data \in UNION {{placed(d, place) : place \in {places(d)}} : d \in {data}} : TRUE

RECURSIVE sum(_)
\* sum(data)
sum(data) == IF data = <<>> THEN 0 ELSE Head(data) + sum(Tail(data))

\* _percentile as the nearest rank: the ceil(p * n / 100)-th smallest value
percentile_nearestRank(sorted_data, p) ==
    IF sorted_data = <<>> THEN 0
    ELSE sorted_data[(p * Len(sorted_data) + 99) \div 100]

\* PerformanceMonitor._percentile, given sorted(data): int((p / 100) * n) is the
\* integer quotient of p * n by 100 for p = 95 and p = 99 and every n up to the
\* capacity of the history
percentile(sorted_data, p) ==
    LET index == (p * Len(sorted_data)) \div 100
    IN  IF sorted_data = <<>> THEN 0
        ELSE sorted_data[(IF index < Len(sorted_data) - 1 THEN index
                          ELSE Len(sorted_data) - 1) + 1]

\* [m.duration for m in metrics]
durations(metrics) == [i \in 1..Len(metrics) |-> metrics[i].duration]

\* sum(1 for m in metrics if test(m)), for the tests cache_hit and success
count_cache_hits(metrics) == Len(SelectSeq(metrics, LAMBDA m : m.cache_hit))
count_successes(metrics) == Len(SelectSeq(metrics, LAMBDA m : m.success))

\* one entry of _get_operation_breakdown
operation_breakdown(op_metrics) ==
    [count |-> Len(op_metrics),
     avg_duration |-> <<sum(durations(op_metrics)), Len(op_metrics)>>,
     success_rate |-> <<count_successes(op_metrics), Len(op_metrics)>>]

\* _get_operation_breakdown as it would be if it grouped the successful metrics only
get_operation_breakdown_successes(metrics) ==
    [operation \in {metrics[i].operation : i \in 1..Len(metrics)} |->
        operation_breakdown(SelectSeq(metrics,
                                      LAMBDA m : m.operation = operation /\ m.success))]

\* PerformanceMonitor._get_operation_breakdown
get_operation_breakdown(metrics) ==
    [operation \in {metrics[i].operation : i \in 1..Len(metrics)} |->
        operation_breakdown(SelectSeq(metrics, LAMBDA m : m.operation = operation))]

\* lines 534-552 of get_performance_summary: the dictionary of a non-empty
\* window; a ratio is the pair of its numerator and its denominator, and
\* ascending is sorted(response_times), which min, max and _percentile look at
summary_of(time_window, recent_metrics, response_times, ascending) ==
    [time_window |-> time_window,
     total_requests |-> Len(recent_metrics),
     successful_requests |-> count_successes(recent_metrics),
     success_rate |-> <<count_successes(recent_metrics), Len(recent_metrics)>>,
     cache_hit_rate |-> <<count_cache_hits(recent_metrics), Len(recent_metrics)>>,
     avg_response_time |-> <<sum(response_times), Len(response_times)>>,
     min_response_time |-> ascending[1],
     max_response_time |-> ascending[Len(ascending)],
     p95_response_time |-> percentile(ascending, 95),
     p99_response_time |-> percentile(ascending, 99),
     operations |-> get_operation_breakdown(recent_metrics)]

\* lines 531-532 of get_performance_summary
summary_window(time_window, recent_metrics) ==
    IF recent_metrics = <<>>
    THEN [error |-> "No metrics available for the specified time window"]
    ELSE CHOOSE summary \in
             {summary_of(time_window, recent_metrics, response_times, ascending) :
                 response_times \in {durations(recent_metrics)},
                 ascending \in {sorted(durations(recent_metrics))}} : TRUE

\* get_performance_summary as it would be if the cutoff itself were outside
get_performance_summary_afterCutoff(pm, current_time, time_window) ==
    CHOOSE summary \in
        {summary_window(time_window, recent_metrics) :
            recent_metrics \in {SelectSeq(pm.metrics_history,
                                          LAMBDA m : m.timestamp > current_time - time_window)}} :
        TRUE

\* PerformanceMonitor.get_performance_summary
get_performance_summary(pm, current_time, time_window) ==
    CHOOSE summary \in
        {summary_window(time_window, recent_metrics) :
            recent_metrics \in {SelectSeq(pm.metrics_history,
                                          LAMBDA m : m.timestamp >= current_time - time_window)}} :
        TRUE

\* CursorAIOptimizer.__init__
CursorAIOptimizer ==
    [prompt_optimizer |-> PromptOptimizer,
     context_compressor |-> ContextCompressor,
     performance_monitor |-> PerformanceMonitor,
     global_cache |-> LRUCache(GlobalCacheMaxsize, GlobalCacheTtl)]

\* str(e)
ErrorMessage(raised) ==
    CASE raised = "ZeroDivisionError" -> "division by zero"
      [] raised = "UnicodeEncodeError" -> "'utf-8' codec can't encode character: surrogates not allowed"
      [] raised = "IndexError" -> "pop from an empty deque"
      [] raised = "ValueError" -> "deque.remove(x): x not in deque"
      [] raised = "RuntimeError" -> "injected failure"

\* bool(response) of a response text
Truthy(response) == response # ""

\* the dictionary optimize_request returns; a key that is absent is Nothing
Response(response, optimized_request, optimization_results, cache_hit) ==
    [response |-> response, optimized_request |-> optimized_request,
     optimization_results |-> optimization_results, cache_hit |-> cache_hit]

\* the optimization_results dictionary, lines 617-621
optimization_results_new(prompt, context) ==
    [original_prompt_length |-> Some(TextLen(prompt)),
     original_context_length |-> Some(TextLen(context)),
     optimizations_applied |-> <<>>,
     prompt_optimization |-> Nothing, context_compression |-> Nothing,
     cache_hit |-> Nothing, final_prompt_length |-> Nothing,
     final_context_length |-> Nothing, error |-> Nothing]

\* what optimize_request hands back: the optimizer's new state and the dictionary
Handled(o, ret) == [o |-> o, ret |-> ret]

\* the dictionary the except clause returns, lines 712-722
fallback(prompt, context, domain, raised) ==
    Response(Nothing,
             Some([prompt |-> prompt, context |-> context,
                   domain |-> domain, cache_key |-> Nothing]),
             [original_prompt_length |-> Nothing, original_context_length |-> Nothing,
              optimizations_applied |-> <<>>,
              prompt_optimization |-> Nothing, context_compression |-> Nothing,
              cache_hit |-> Nothing, final_prompt_length |-> Nothing,
              final_context_length |-> Nothing,
              error |-> Some(ErrorMessage(raised))],
             FALSE)

\* an except clause that returns the fallback without recording the failure
optimize_request_except_unrecorded(o, prompt, context, domain, raised, current_time) ==
    Handled(o, fallback(prompt, context, domain, raised))

\* the except clause of optimize_request, lines 696-722; prompt, context and domain
\* are the function's variables at the time of the exception
optimize_request_except(o, prompt, context, domain, raised, current_time) ==
    Handled([o EXCEPT !.performance_monitor =
                 record_metric(@, PerformanceMetrics("optimize_request", FALSE, current_time,
                                                     FALSE, Some(ErrorMessage(raised))))],
            fallback(prompt, context, domain, raised))

\* optimize_request_lookup as it would be if a miss reserved the key in the
\* global cache
optimize_request_lookup_reserving(o, prompt, context, domain, current_time, optimized_prompt, results, cache_key, looked) ==
    IF looked.raised # NoError
    THEN optimize_request_except([o EXCEPT !.global_cache = looked.c],
                                 prompt, context, domain, looked.raised, current_time)
    ELSE IF looked.ret # Nothing /\ Truthy(looked.ret[1])
    THEN Handled([o EXCEPT !.global_cache = looked.c,
                           !.performance_monitor =
                               record_metric(@, PerformanceMetrics("optimize_request", TRUE,
                                                                   current_time, TRUE, Nothing))],
                 Response(looked.ret, Nothing,
                          [results EXCEPT !.cache_hit = Some(TRUE),
                                          !.optimizations_applied = Append(@, "cache_hit")],
                          TRUE))
    ELSE Handled([o EXCEPT !.global_cache = put(looked.c, cache_key, "", current_time).c,
                           !.performance_monitor =
                               record_metric(@, PerformanceMetrics("optimize_request", FALSE,
                                                                   current_time, TRUE, Nothing))],
                 Response(Nothing,
                          Some([prompt |-> optimized_prompt, context |-> context,
                                domain |-> domain, cache_key |-> Some(cache_key)]),
                          [results EXCEPT !.cache_hit = Some(FALSE),
                                          !.final_prompt_length = Some(TextLen(optimized_prompt)),
                                          !.final_context_length = Some(TextLen(context))],
                          FALSE))

\* lines 640-694 of optimize_request: looked is what global_cache.get returned
optimize_request_lookup(o, prompt, context, domain, current_time, optimized_prompt, results, cache_key, looked) ==
    IF looked.raised # NoError
    THEN optimize_request_except([o EXCEPT !.global_cache = looked.c],
                                 prompt, context, domain, looked.raised, current_time)
    ELSE IF looked.ret # Nothing /\ Truthy(looked.ret[1])
    THEN Handled([o EXCEPT !.global_cache = looked.c,
                           !.performance_monitor =
                               record_metric(@, PerformanceMetrics("optimize_request", TRUE,
                                                                   current_time, TRUE, Nothing))],
                 Response(looked.ret, Nothing,
                          [results EXCEPT !.cache_hit = Some(TRUE),
                                          !.optimizations_applied = Append(@, "cache_hit")],
                          TRUE))
    ELSE Handled([o EXCEPT !.global_cache = looked.c,
                           !.performance_monitor =
                               record_metric(@, PerformanceMetrics("optimize_request", FALSE,
                                                                   current_time, TRUE, Nothing))],
                 Response(Nothing,
                          Some([prompt |-> optimized_prompt, context |-> context,
                                domain |-> domain, cache_key |-> Some(cache_key)]),
                          [results EXCEPT !.cache_hit = Some(FALSE),
                                          !.final_prompt_length = Some(TextLen(optimized_prompt)),
                                          !.final_context_length = Some(TextLen(context))],
                          FALSE))

\* step 3 with the key derived from the prompt as the caller gave it
optimize_request_key_rawPrompt(o, prompt, context, domain, current_time, optimized_prompt, results, fault) ==
    IF ~Encodable(optimized_prompt) \/ ~Encodable(context) \/ domain = Surrogate
    THEN optimize_request_except(o, prompt, context, domain, "UnicodeEncodeError", current_time)
    ELSE IF fault # NoError
    THEN optimize_request_except(o, prompt, context, domain, fault, current_time)
    ELSE optimize_request_lookup(o, prompt, context, domain, current_time, optimized_prompt,
                                 results, md5(<<prompt, context, domain>>),
                                 get(o.global_cache, md5(<<prompt, context, domain>>),
                                     current_time))

\* lines 636-638 of optimize_request: context is the variable as step 2 left it;
\* fault is the exception a patched global_cache.get raises, NoError when unpatched
optimize_request_key(o, prompt, context, domain, current_time, optimized_prompt, results, fault) ==
    IF ~Encodable(optimized_prompt) \/ ~Encodable(context) \/ domain = Surrogate
    THEN optimize_request_except(o, prompt, context, domain, "UnicodeEncodeError", current_time)
    ELSE IF fault # NoError
    THEN optimize_request_except(o, prompt, context, domain, fault, current_time)
    ELSE optimize_request_lookup(o, prompt, context, domain, current_time, optimized_prompt,
                                 results, md5(<<optimized_prompt, context, domain>>),
                                 get(o.global_cache, md5(<<optimized_prompt, context, domain>>),
                                     current_time))

\* lines 631-634 of optimize_request: compressed is what compress_context returned
optimize_request_compressed(o, prompt, context, domain, current_time, optimized_prompt, results, compressed, fault) ==
    IF compressed.raised # NoError
    THEN optimize_request_except([o EXCEPT !.context_compressor = compressed.state],
                                 prompt, context, domain, compressed.raised, current_time)
    ELSE optimize_request_key([o EXCEPT !.context_compressor = compressed.state],
                              prompt, compressed.ret[1][1], domain, current_time, optimized_prompt,
                              [results EXCEPT !.context_compression = Some(compressed.ret[1][2]),
                                              !.optimizations_applied =
                                                  Append(@, "context_compression")],
                              fault)

\* step 2 with the length test off by one: a context of exactly 5000 characters is
\* compressed
optimize_request_context_atThreshold(o, prompt, context, domain, enable_compression, current_time, optimized_prompt, results, fault) ==
    IF enable_compression /\ TextLen(context) >= CompressionThreshold
    THEN optimize_request_compressed(o, prompt, context, domain, current_time, optimized_prompt,
                                     results,
                                     compress_context(o.context_compressor, context, current_time),
                                     fault)
    ELSE optimize_request_key(o, prompt, context, domain, current_time, optimized_prompt, results,
                              fault)

\* lines 629-630 of optimize_request
optimize_request_context(o, prompt, context, domain, enable_compression, current_time, optimized_prompt, results, fault) ==
    IF enable_compression /\ TextLen(context) > CompressionThreshold
    THEN optimize_request_compressed(o, prompt, context, domain, current_time, optimized_prompt,
                                     results,
                                     compress_context(o.context_compressor, context, current_time),
                                     fault)
    ELSE optimize_request_key(o, prompt, context, domain, current_time, optimized_prompt, results,
                              fault)

\* lines 625-627 of optimize_request: optimized is what optimize_prompt returned
optimize_request_prompt(o, prompt, context, domain, enable_compression, current_time, results, optimized, fault) ==
    IF optimized.raised # NoError
    THEN optimize_request_except([o EXCEPT !.prompt_optimizer = optimized.state],
                                 prompt, context, domain, optimized.raised, current_time)
    ELSE optimize_request_context([o EXCEPT !.prompt_optimizer = optimized.state],
                                  prompt, context, domain, enable_compression, current_time,
                                  optimized.ret[1][1],
                                  [results EXCEPT !.prompt_optimization = Some(optimized.ret[1][2]),
                                                  !.optimizations_applied =
                                                      Append(@, "prompt_optimization")],
                                  fault)

\* CursorAIOptimizer.optimize_request
optimize_request(o, prompt, context, domain, enable_compression, current_time, fault) ==
    optimize_request_prompt(o, prompt, context, domain, enable_compression, current_time,
                            optimization_results_new(prompt, context),
                            optimize_prompt(o.prompt_optimizer, prompt, domain, current_time),
                            fault)

EmptyKey == <<>>                       \* the key '', a digest of no characters

\* cache_response as it would be if it tested cache_key against None only
cache_response_notNone(o, cache_key, response, current_time) ==
    IF cache_key # Nothing
    THEN LET stored == put(o.global_cache, cache_key[1], response, current_time)
         IN  [o EXCEPT !.global_cache = stored.c]
    ELSE o

\* CursorAIOptimizer.cache_response; cache_key is Nothing for None, and
\* if cache_key: is false for None and for ''
cache_response(o, cache_key, response, current_time) ==
    IF cache_key # Nothing /\ cache_key[1] # EmptyKey
    THEN LET stored == put(o.global_cache, cache_key[1], response, current_time)
         IN  [o EXCEPT !.global_cache = stored.c]
    ELSE o

\* CursorAIOptimizer._get_memory_usage
get_memory_usage(o) ==
    [cache_objects |-> Cardinality(DOMAIN o.global_cache.cache),
     optimization_history |-> Len(o.prompt_optimizer.performance_history),
     performance_metrics |-> Len(o.performance_monitor.metrics_history)]

\* get_performance_stats as it would be if reading a cache's statistics counted
\* as a request to it
get_performance_stats_counted(o, current_time) ==
    Outcome([o EXCEPT !.global_cache.stats.misses = @ + 1],
            Some([prompt_optimizer_cache |-> get_stats(o.prompt_optimizer.optimization_cache),
                  context_compressor_cache |-> get_stats(o.context_compressor.compression_cache),
                  global_cache |-> get_stats(o.global_cache),
                  performance_summary |->
                      get_performance_summary(o.performance_monitor, current_time, DefaultWindow),
                  memory_usage |-> get_memory_usage(o)]),
            NoError)

\* CursorAIOptimizer.get_performance_stats: the optimizer as the call leaves
\* it and the dictionary it returns
get_performance_stats(o, current_time) ==
    Outcome(o,
            Some([prompt_optimizer_cache |-> get_stats(o.prompt_optimizer.optimization_cache),
                  context_compressor_cache |-> get_stats(o.context_compressor.compression_cache),
                  global_cache |-> get_stats(o.global_cache),
                  performance_summary |->
                      get_performance_summary(o.performance_monitor, current_time, DefaultWindow),
                  memory_usage |-> get_memory_usage(o)]),
            NoError)

\* cleanup_resources as it would be if it left the compressor's cache alone
cleanup_resources_twoCaches(o) ==
    [o EXCEPT !.global_cache = clear(@),
              !.prompt_optimizer.optimization_cache = clear(@)]

\* CursorAIOptimizer.cleanup_resources
cleanup_resources(o) ==
    [o EXCEPT !.global_cache = clear(@),
              !.prompt_optimizer.optimization_cache = clear(@),
              !.context_compressor.compression_cache = clear(@)]

(* ---------------------------------------------------------------------- *)
(* Specification of one cache instance used sequentially                  *)
(* ---------------------------------------------------------------------- *)
Call(op, key, r, report) ==
    [op |-> op, key |-> key, ret |-> r.ret, raised |-> r.raised,
     path |-> r.path, evicted |-> r.evicted, report |-> report]

Returned == Result(None, Nothing, NoError, None, Nothing)

\* an optimize_request call: its arguments, the exception its cache lookup was
\* patched to raise, and the dictionary it returned
Request(prompt, context, domain, enable_compression, fault, returned) ==
    [prompt |-> prompt, context |-> context, domain |-> domain,
     enable_compression |-> enable_compression, fault |-> fault, returned |-> returned]

\* no call of optimize_request has been made
NoRequest == Request(<<>>, <<>>, None, FALSE, NoError, Nothing)

\* a call of optimize_prompt or compress_context: its arguments (a context has
\* no domain), what it returned and the exception it raised
Answer(op, text, domain, r) ==
    [op |-> op, text |-> text, domain |-> domain, ret |-> r.ret, raised |-> r.raised]

\* a thread that is in no call: no metric in hand, no length read, no lock step
\* ahead, no arguments and nothing returned
IdleRecorder ==
    [pc |-> "idle", metric |-> Nothing, usage |-> <<>>, steps |-> <<>>,
     args |-> <<>>, ret |-> Nothing]

\* the _lock of each cache of a new optimizer: nobody owns it
Unlocked ==
    [c \in {"optimization_cache", "compression_cache", "global_cache"} |-> None]

\* a new monitor: it held nothing at the start and nothing was appended
NoRecords == [before |-> <<>>, since |-> <<>>]

\* no component has been called on its own
NoAnswer == Answer("init", <<>>, None, Outcome(Nothing, Nothing, NoError))

\* the locals of a thread that is in no call
IdleFrame ==
    [op |-> "idle", pc |-> "idle", key |-> None, value |-> 0, current_time |-> 0,
     oldest_key |-> None, ret |-> Nothing, raised |-> NoError, path |-> None,
     evicted |-> Nothing, report |-> Nothing, serial_ret |-> Nothing]

Init ==
    /\ \E m \in Maxsizes, t \in Ttls : lru = LRUCache(m, t)
    /\ now = 0
    /\ last = Call("init", None, Returned, Nothing)
    /\ lock = None
    /\ cache_lock = Unlocked
    /\ frame = [t \in Threads |-> IdleFrame]
    /\ serial = lru
    /\ optimizer = CursorAIOptimizer
    /\ request = NoRequest
    /\ answer = NoAnswer
    /\ monitor_lock = None
    /\ recorder = [t \in Threads |-> IdleRecorder]
    /\ recorded = NoRecords
    /\ reading = Nothing

Get(key) ==
    /\ lru.stats.hits + lru.stats.misses < MaxGets
    /\ LET r == get(lru, key, now)
       IN  /\ lru' = r.c
           /\ last' = Call("get", key, r, Nothing)
    /\ UNCHANGED <<now, threaded, pipeline, monitoring>>

Put(key, value) ==
    /\ lru.stats.evictions < MaxEvictions
    /\ LET r == put(lru, key, value, now)
       IN  /\ lru' = r.c
           /\ last' = Call("put", key, r, Nothing)
    /\ UNCHANGED <<now, threaded, pipeline, monitoring>>

Clear ==
    /\ lru' = clear(lru)
    /\ last' = Call("clear", None, Returned, Nothing)
    /\ UNCHANGED <<now, threaded, pipeline, monitoring>>

Stats ==
    /\ last' = Call("get_stats", None, Returned, Some(get_stats(lru)))
    /\ UNCHANGED <<lru, now, threaded, pipeline, monitoring>>

\* the clock advances between calls
Tick ==
    /\ now < MaxTime
    /\ now' = now + 1
    /\ UNCHANGED <<lru, last, threaded, pipeline, monitoring>>

Next ==
    \/ \E key \in Keys : Get(key)
    \/ \E key \in Keys, value \in Values : Put(key, value)
    \/ Clear
    \/ Stats
    \/ Tick

Spec == Init /\ [][Next]_vars

TypeOK ==
    /\ DOMAIN lru.cache \subseteq Keys
    /\ DOMAIN lru.timestamps = DOMAIN lru.cache
    /\ now \in 0..MaxTime

(* ---------------------------------------------------------------------- *)
(* Properties of the cache                                                *)
(* ---------------------------------------------------------------------- *)
Size(c) == Cardinality(DOMAIN c.cache)
Count(s, x) == Cardinality({i \in 1..Len(s) : s[i] = x})
Fresh(c, key, t) == t - c.timestamps[key] < c.ttl

\* The key of the mapping whose last put or successful get is oldest.  Every
\* put and every successful get appends the key to access_order, so the last
\* node of a key is the node of its latest use, and nodes keep their order.
LastNode(s, x) == CHOOSE i \in 1..Len(s) : s[i] = x /\ \A j \in (i+1)..Len(s) : s[j] # x
LeastRecentlyUsed(c) ==
    CHOOSE k \in DOMAIN c.cache :
        \A j \in DOMAIN c.cache : LastNode(c.access_order, k) <= LastNode(c.access_order, j)

\* the step is the call get(k), resp. put(k, v): Get(k) and Put(k, v) themselves,
\* with the conjuncts that tell the calls apart put first
GetStep(k) == last'.op = "get" /\ last'.key = k /\ Get(k)
PutStep(k, v) == last'.op = "put" /\ last'.key = k /\ Put(k, v)

\* C1: with maxsize >= 1 the mapping never holds more than maxsize entries.
C1_SizeNeverExceedsMaxsize ==
    lru.maxsize >= 1 => Size(lru) <= lru.maxsize

\* C2: access_order is as long as the mapping, every key of the mapping occurs
\* in it exactly once, and no other key occurs in it.
C2_OrderMatchesMapping ==
    /\ Len(lru.access_order) = Size(lru)
    /\ \A k \in DOMAIN lru.cache : Count(lru.access_order, k) = 1
    /\ \A i \in 1..Len(lru.access_order) : lru.access_order[i] \in DOMAIN lru.cache

\* C3: a put of a new key into a mapping that holds maxsize entries removes
\* exactly the key whose last put or successful get is oldest.
C3_EvictsLeastRecentlyUsed ==
    [][\A k \in Keys, v \in Values :
         (/\ PutStep(k, v)
          /\ lru.maxsize >= 1
          /\ k \notin DOMAIN lru.cache
          /\ Size(lru) = lru.maxsize)
         => DOMAIN lru'.cache = (DOMAIN lru.cache \ {LeastRecentlyUsed(lru)}) \cup {k}]_vars

\* C4: a get of a present key of age >= ttl returns None, removes the key,
\* adds one to expired and one to misses and leaves hits and evictions alone;
\* a get of an absent key (as the key then is) adds one to misses only.
C4_ExpiredGet ==
    [][\A k \in Keys :
         /\ (GetStep(k) /\ k \in DOMAIN lru.cache /\ now - lru.timestamps[k] >= lru.ttl)
            => /\ last'.ret = Nothing /\ last'.raised = NoError
               /\ k \notin DOMAIN lru'.cache
               /\ lru'.stats = [lru.stats EXCEPT !.expired = @ + 1, !.misses = @ + 1]
         /\ (GetStep(k) /\ k \notin DOMAIN lru.cache)
            => /\ last'.ret = Nothing /\ last'.raised = NoError
               /\ lru'.stats = [lru.stats EXCEPT !.misses = @ + 1]
               /\ lru'.cache = lru.cache]_vars

\* the expired get has just happened at age exactly ttl: the only get so far,
\* of a key stored at time 0, at time ttl
C4_Witness ==
    /\ last.op = "get" /\ last.path = "expired" /\ last.ret = Nothing
    /\ now = lru.ttl
    /\ lru.stats = [hits |-> 0, misses |-> 1, evictions |-> 0, expired |-> 1]

\* C5: a put of a present key stores the new value and sets the entry's
\* timestamp to the time of that put, so that a get at time t returns the new
\* value exactly when t is less than ttl after that put.
C5_PutRefreshesTimestamp ==
    [][\A k \in Keys, v \in Values :
         (PutStep(k, v) /\ k \in DOMAIN lru.cache)
         => /\ last'.raised = NoError
            /\ DOMAIN lru'.cache = DOMAIN lru.cache
            /\ lru'.cache[k] = v
            /\ lru'.timestamps[k] = now
            /\ \A t \in now..MaxTime :
                 get(lru', k, t).ret = IF t - now < lru.ttl THEN Some(v) ELSE Nothing]_vars

\* a present key has just been overwritten with another value at a later time
C5_Witness ==
    /\ last.op = "put" /\ last.path = "update"
    /\ now > 0
    /\ lru.timestamps[last.key] = now
    /\ lru.cache[last.key] = 2

\* C6: a get of a present, unexpired key returns the stored value, adds one to
\* hits, leaves mapping and timestamps alone, and makes the key the most
\* recently used: a put of a new key straight after does not evict it while
\* another key is present.
C6_HitMakesMostRecentlyUsed ==
    [][\A k \in Keys :
         (GetStep(k) /\ k \in DOMAIN lru.cache /\ Fresh(lru, k, now))
         => /\ last'.ret = Some(lru.cache[k]) /\ last'.raised = NoError
            /\ lru'.stats = [lru.stats EXCEPT !.hits = @ + 1]
            /\ lru'.cache = lru.cache
            /\ lru'.timestamps = lru.timestamps
            /\ \A n \in Keys \ DOMAIN lru'.cache, v \in Values :
                 Size(lru') >= 2 => k \in DOMAIN put(lru', n, v, now).c.cache]_vars

\* C7: the victim of a put does not depend on the timestamps (the put leaves
\* the same keys in the mapping as it would if no entry had aged), a put removes
\* no key but the head of access_order, and an entry leaves the mapping only
\* by a get that finds it expired, by an eviction or by clear: never by the
\* passing of time alone.
C7_EvictionIgnoresTtl ==
    [][/\ \A k \in Keys, v \in Values :
            PutStep(k, v) =>
              /\ DOMAIN put([lru EXCEPT !.timestamps = [j \in DOMAIN lru.cache |-> now]],
                            k, v, now).c.cache
                   = DOMAIN lru'.cache
              /\ (DOMAIN lru.cache) \ (DOMAIN lru'.cache)
                   \subseteq (IF lru.access_order = <<>> THEN {} ELSE {Head(lru.access_order)})
       /\ \A j \in (DOMAIN lru.cache) \ (DOMAIN lru'.cache) :
            \/ GetStep(j) /\ ~Fresh(lru, j, now)
            \/ \E k \in Keys \ {j}, v \in Values : PutStep(k, v) /\ last'.evicted = Some([key |-> j, timestamp |-> Some(lru.timestamps[j])])
            \/ Clear]_vars

\* a put has just evicted an unexpired entry while an entry past its ttl,
\* which no get has read, stays in the mapping
C7_Witness ==
    /\ last.op = "put" /\ last.path = "evict"
    /\ last.evicted # Nothing
    /\ last.evicted[1].timestamp # Nothing
    /\ now - last.evicted[1].timestamp[1] < lru.ttl
    /\ \E j \in DOMAIN lru.cache : ~Fresh(lru, j, now)

\* C8: no call of get, put, clear or get_stats raises, for any maxsize and ttl.
C8_NeverRaises ==
    last.raised = NoError

(* ---------------------------------------------------------------------- *)
(* One cache instance called from several threads.  Each call runs line   *)
(* by line inside "with self._lock"; frame[t].pc is the line thread t is  *)
(* about to run.                                                          *)
(* ---------------------------------------------------------------------- *)
ThreadKeys == {"a", "b"}
ThreadValues == {1}

At(c, f, pc) == [c |-> c, f |-> [f EXCEPT !.pc = pc]]
Raise(c, f, error) == [c |-> c, f |-> [f EXCEPT !.pc = "exit", !.raised = error]]

\* one line of LRUCache.get; g58 is the test of lines 58-59
get_line(c, f) ==
    CASE f.pc = "g58" ->
           IF f.key \in DOMAIN c.cache
           THEN IF f.key \in DOMAIN c.timestamps
                THEN IF f.current_time - c.timestamps[f.key] < c.ttl
                     THEN At(c, [f EXCEPT !.path = "hit"], "g61")
                     ELSE At(c, [f EXCEPT !.path = "expired"], "g93")
                ELSE Raise(c, f, "KeyError")
           ELSE At(c, [f EXCEPT !.path = "miss"], "g70")
      [] f.pc = "g61" ->
           IF InDeque(c.access_order, f.key)
           THEN At([c EXCEPT !.access_order = deque_remove(@, f.key)], f, "g62")
           ELSE Raise(c, f, "ValueError")
      [] f.pc = "g62" -> At([c EXCEPT !.access_order = Append(@, f.key)], f, "g63")
      [] f.pc = "g63" ->
           IF f.key \in DOMAIN c.cache
           THEN At([c EXCEPT !.stats.hits = @ + 1],
                   [f EXCEPT !.ret = Some(c.cache[f.key])], "exit")
           ELSE Raise([c EXCEPT !.stats.hits = @ + 1], f, "KeyError")
      [] f.pc = "g93" ->
           IF f.key \in DOMAIN c.cache
           THEN At([c EXCEPT !.cache = DictDel(@, f.key)], f, "g95")
           ELSE At(c, f, "g68")
      [] f.pc = "g95" ->
           IF f.key \in DOMAIN c.timestamps
           THEN At([c EXCEPT !.timestamps = DictDel(@, f.key)], f, "g68")
           ELSE Raise(c, f, "KeyError")
      [] f.pc = "g68" -> At([c EXCEPT !.stats.expired = @ + 1], f, "g70")
      [] f.pc = "g70" -> At([c EXCEPT !.stats.misses = @ + 1], f, "exit")

\* one line of LRUCache.put; p78 is the test of lines 78 and 81
put_line(c, f) ==
    CASE f.pc = "p78" ->
           IF f.key \in DOMAIN c.cache
           THEN At(c, [f EXCEPT !.path = "update"], "p80")
           ELSE IF Cardinality(DOMAIN c.cache) >= c.maxsize
                THEN At(c, [f EXCEPT !.path = "evict"], "p83")
                ELSE At(c, [f EXCEPT !.path = "insert"], "p87")
      [] f.pc = "p80" ->
           IF InDeque(c.access_order, f.key)
           THEN At([c EXCEPT !.access_order = deque_remove(@, f.key)], f, "p87")
           ELSE Raise(c, f, "ValueError")
      [] f.pc = "p83" ->
           IF c.access_order = <<>>
           THEN Raise(c, f, "IndexError")
           ELSE At([c EXCEPT !.access_order = Tail(@)],
                   [f EXCEPT !.oldest_key = Head(c.access_order),
                             !.evicted =
                                Some([key |-> Head(c.access_order),
                                      timestamp |->
                                        IF Head(c.access_order) \in DOMAIN c.timestamps
                                        THEN Some(c.timestamps[Head(c.access_order)])
                                        ELSE Nothing])],
                   "p93")
      [] f.pc = "p93" ->
           IF f.oldest_key \in DOMAIN c.cache
           THEN At([c EXCEPT !.cache = DictDel(@, f.oldest_key)], f, "p95")
           ELSE At(c, f, "p85")
      [] f.pc = "p95" ->
           IF f.oldest_key \in DOMAIN c.timestamps
           THEN At([c EXCEPT !.timestamps = DictDel(@, f.oldest_key)], f, "p85")
           ELSE Raise(c, f, "KeyError")
      [] f.pc = "p85" -> At([c EXCEPT !.stats.evictions = @ + 1], f, "p87")
      [] f.pc = "p87" -> At([c EXCEPT !.cache = DictSet(@, f.key, f.value)], f, "p88")
      [] f.pc = "p88" ->
           At([c EXCEPT !.timestamps = DictSet(@, f.key, f.current_time)], f, "p89")
      [] f.pc = "p89" -> At([c EXCEPT !.access_order = Append(@, f.key)], f, "exit")

\* one line of LRUCache.clear
clear_line(c, f) ==
    CASE f.pc = "c100" -> At([c EXCEPT !.cache = EmptyDict], f, "c101")
      [] f.pc = "c101" -> At([c EXCEPT !.timestamps = EmptyDict], f, "c102")
      [] f.pc = "c102" -> At([c EXCEPT !.access_order = <<>>], f, "exit")

\* LRUCache.get_stats: lines 107-115 only read
get_stats_line(c, f) ==
    At(c, [f EXCEPT !.ret = Some(get_stats(c))], "exit")

FirstLine(op) ==
    CASE op = "get" -> "g58" [] op = "put" -> "p78" [] op = "clear" -> "c100"
      [] op = "get_stats" -> "s107"

\* the cache after the whole call, run alone, and what the call returns
Serially(c, op, key, value, t) ==
    CASE op = "get" -> get(c, key, t)
      [] op = "put" -> put(c, key, value, t)
      [] op = "clear" -> Result(clear(c), Nothing, NoError, None, Nothing)
      [] op = "get_stats" -> Result(c, Some(get_stats(c)), NoError, None, Nothing)

\* a lock that never makes a thread wait
LockFree_noWait(t) == TRUE

\* the RLock is free for thread t: nobody holds it (no call re-enters it)
LockFree(t) == lock = None

\* thread t calls get, put, clear or get_stats and arrives at "with self._lock:"
Invoke(t, op, key, value) ==
    /\ frame[t].op = "idle"
    /\ op = "get" => lru.stats.hits + lru.stats.misses < MaxGets
    /\ op = "put" => lru.stats.evictions < MaxEvictions
    /\ frame' = [frame EXCEPT ![t] = [IdleFrame EXCEPT !.op = op, !.pc = "with",
                                                        !.key = key, !.value = value]]
    /\ UNCHANGED <<lru, now, last, lock, serial, cache_lock, pipeline, monitoring>>

\* "with self._lock:" takes the lock once it is free; get and put then read time.time()
Acquire(t) ==
    /\ frame[t].pc = "with"
    /\ LockFree(t)
    /\ lock' = t
    /\ LET r == Serially(serial, frame[t].op, frame[t].key, frame[t].value, now)
       IN  /\ serial' = r.c
           /\ frame' = [frame EXCEPT ![t].pc = FirstLine(frame[t].op),
                                     ![t].current_time = now,
                                     ![t].serial_ret = Some([ret |-> r.ret, raised |-> r.raised])]
    /\ UNCHANGED <<lru, now, last, cache_lock, pipeline, monitoring>>

\* thread t runs the line it is at
Line(t) ==
    /\ frame[t].pc \notin {"idle", "with", "exit"}
    /\ LET r == CASE frame[t].op = "get" -> get_line(lru, frame[t])
                  [] frame[t].op = "put" -> put_line(lru, frame[t])
                  [] frame[t].op = "clear" -> clear_line(lru, frame[t])
                  [] frame[t].op = "get_stats" -> get_stats_line(lru, frame[t])
       IN  /\ lru' = r.c
           /\ frame' = [frame EXCEPT ![t] = r.f]
    /\ UNCHANGED <<now, last, lock, serial, cache_lock, pipeline, monitoring>>

\* the with block is left, by return or by exception: the lock is released
Exit(t) ==
    /\ frame[t].pc = "exit"
    /\ lock' = IF lock = t THEN None ELSE lock
    /\ frame' = [frame EXCEPT ![t] = IdleFrame]
    /\ UNCHANGED <<lru, now, last, serial, cache_lock, pipeline, monitoring>>

TickThreads ==
    /\ now < MaxTime
    /\ now' = now + 1
    /\ UNCHANGED <<lru, last, threaded, pipeline, monitoring>>

InitThreads ==
    /\ lru = LRUCache(1, 2)
    /\ now = 0
    /\ last = Call("init", None, Returned, Nothing)
    /\ lock = None
    /\ cache_lock = Unlocked
    /\ frame = [t \in Threads |-> IdleFrame]
    /\ serial = lru
    /\ optimizer = CursorAIOptimizer
    /\ request = NoRequest
    /\ answer = NoAnswer
    /\ monitor_lock = None
    /\ recorder = [t \in Threads |-> IdleRecorder]
    /\ recorded = NoRecords
    /\ reading = Nothing

NextThreads ==
    \/ \E t \in Threads, key \in ThreadKeys : Invoke(t, "get", key, 0)
    \/ \E t \in Threads, key \in ThreadKeys, value \in ThreadValues : Invoke(t, "put", key, value)
    \/ \E t \in Threads : Invoke(t, "clear", None, 0)
    \/ \E t \in Threads : Invoke(t, "get_stats", None, 0)
    \/ \E t \in Threads : Acquire(t)
    \/ \E t \in Threads : Line(t)
    \/ \E t \in Threads : Exit(t)
    \/ TickThreads

SpecThreads == InitThreads /\ [][NextThreads]_vars

\* thread t is inside the with block
InCall(t) == frame[t].pc \notin {"idle", "with"}

\* C9: the calls of one cache exclude each other, and whenever no call is
\* inside its with block the cache is what the calls made so far give when run
\* whole, one after the other in the order they took the lock, with mapping
\* and timestamps over the same keys and every key of the mapping in
\* access_order; so a call never starts on a state another call has half
\* written, and it returns what it returns in that sequential order.
C9_CallsAreAtomic ==
    /\ \A t, u \in Threads : (InCall(t) /\ InCall(u)) => t = u
    /\ \A t \in Threads : InCall(t) => lock = t
    /\ \A t \in Threads :
          frame[t].pc = "exit" =>
             /\ frame[t].serial_ret = Some([ret |-> frame[t].ret, raised |-> frame[t].raised])
             /\ lru = serial
    /\ (\A t \in Threads : ~InCall(t)) =>
          /\ lock = None
          /\ lru = serial
          /\ DOMAIN lru.timestamps = DOMAIN lru.cache
          /\ \A k \in DOMAIN lru.cache : InDeque(lru.access_order, k)

\* one thread is in the middle of a put, the key stored in the mapping but
\* not yet in timestamps, while the other thread waits at the lock for its get
\* of that key
C9_Witness ==
    \E t, u \in Threads :
        /\ frame[t].op = "put" /\ frame[t].pc = "p88"
        /\ frame[t].key \in DOMAIN lru.cache
        /\ frame[t].key \notin DOMAIN lru.timestamps
        /\ frame[u].op = "get" /\ frame[u].pc = "with" /\ frame[u].key = frame[t].key


(* ---------------------------------------------------------------------- *)
(* The optimizer instance: optimize_request, cache_response and           *)
(* cleanup_resources called one after the other.                          *)
(* ---------------------------------------------------------------------- *)
EmptyPrompt == <<>>
PlainPrompt == << <<"analyze", "logs">> >>
PolitePrompt == << <<"please", "basically", "analyze", "logs">> >>

ShortContext == << <<"error">> >>
BoundaryContext == << <<LongBlock>> >>  \* exactly 5000 characters
LongContext == << <<LongBlock>>, <<"error">> >>
UnencodableContext == << <<LongBlock>>, <<Surrogate>> >>

CorruptDomain == Surrogate             \* a domain tag that cannot be encoded
Responses == {"", "response"}

\* the calls of optimize_request that are made: <<prompt, context, domain,
\* enable_compression, fault>>; the last one is made with global_cache.get patched
\* to raise
Requests ==
    {<<PlainPrompt, BoundaryContext, "devops", TRUE, NoError>>,
     <<PolitePrompt, LongContext, "devops", TRUE, NoError>>,
     <<PolitePrompt, LongContext, "devops", FALSE, NoError>>,
     <<PolitePrompt, UnencodableContext, "devops", FALSE, NoError>>,
     <<PlainPrompt, UnencodableContext, "devops", TRUE, NoError>>,
     <<EmptyPrompt, ShortContext, "devops", TRUE, NoError>>,
     <<PlainPrompt, LongContext, CorruptDomain, TRUE, NoError>>,
     <<PlainPrompt, LongContext, "devops", TRUE, "RuntimeError">>}

\* time.time(): a step of the clock is an hour, twice the shortest TTL
Seconds(n) == n * (2 * CompressionCacheTtl)

Optimize(prompt, context, domain, enable_compression, fault) ==
    /\ Len(optimizer.performance_monitor.metrics_history) < MaxRequests
    /\ LET handled == optimize_request(optimizer, prompt, context, domain,
                                       enable_compression, Seconds(now), fault)
       IN  /\ optimizer' = handled.o
           /\ request' = Request(prompt, context, domain, enable_compression, fault,
                                 Some(handled.ret))
    /\ UNCHANGED <<lru, now, last, threaded, answer, monitoring>>

\* the caller stores a response under the key the last call returned
CacheResponse(response) ==
    /\ request.returned # Nothing
    /\ request.returned[1].optimized_request # Nothing
    /\ optimizer' = cache_response(optimizer,
                                   request.returned[1].optimized_request[1].cache_key,
                                   response, Seconds(now))
    /\ UNCHANGED <<lru, now, last, threaded, request, answer, monitoring>>

Cleanup ==
    /\ optimizer' = cleanup_resources(optimizer)
    /\ UNCHANGED <<lru, now, last, threaded, request, answer, monitoring>>

TickPipeline ==
    /\ now < MaxTime
    /\ now' = now + 1
    /\ UNCHANGED <<lru, last, threaded, pipeline, monitoring>>

InitPipeline ==
    /\ lru = LRUCache(1, 2)
    /\ now = 0
    /\ last = Call("init", None, Returned, Nothing)
    /\ lock = None
    /\ cache_lock = Unlocked
    /\ frame = [t \in Threads |-> IdleFrame]
    /\ serial = lru
    /\ optimizer = CursorAIOptimizer
    /\ request = NoRequest
    /\ answer = NoAnswer
    /\ monitor_lock = None
    /\ recorder = [t \in Threads |-> IdleRecorder]
    /\ recorded = NoRecords
    /\ reading = Nothing

NextPipeline ==
    \/ \E r \in Requests : Optimize(r[1], r[2], r[3], r[4], r[5])
    \/ \E response \in Responses : CacheResponse(response)
    \/ Cleanup
    \/ TickPipeline

SpecPipeline == InitPipeline /\ [][NextPipeline]_vars

\* the last call ended in the except clause
Failed == request.returned # Nothing /\ request.returned[1].optimization_results.error # Nothing

\* the stage of the last call that raised, told from its arguments
FailedStage ==
    IF request.fault # NoError THEN "cache lookup"
    ELSE IF request.domain = CorruptDomain \/ request.prompt = EmptyPrompt THEN "prompt optimization"
    ELSE IF request.enable_compression /\ TextLen(request.context) > CompressionThreshold
    THEN "context compression"
    ELSE "key derivation"

\* C10: when a stage of optimize_request raises, the call still returns: the
\* result has cache_hit false, an error message, no response, a request whose
\* cache key is None and whose prompt is the caller's prompt, and the newest
\* metric is a failure of optimize_request that carries the same error message.
C10_FailureFallsBack ==
    Failed =>
        LET ret == request.returned[1]
            history == optimizer.performance_monitor.metrics_history
        IN  /\ ret.cache_hit = FALSE
            /\ ret.response = Nothing
            /\ ret.optimization_results.error[1] \in
                   {ErrorMessage(e) : e \in {"ZeroDivisionError", "UnicodeEncodeError", "RuntimeError"}}
            /\ ret.optimized_request # Nothing
            /\ ret.optimized_request[1].cache_key = Nothing
            /\ ret.optimized_request[1].prompt = request.prompt
            /\ history # <<>>
            /\ history[Len(history)].operation = "optimize_request"
            /\ history[Len(history)].success = FALSE
            /\ history[Len(history)].cache_hit = FALSE
            /\ history[Len(history)].error_message = ret.optimization_results.error

\* a call that failed while deriving the cache key, after the prompt optimizer had
\* rewritten the prompt: the fallback still carries the prompt as the caller gave it
C10_Witness ==
    /\ Failed
    /\ FailedStage = "key derivation"
    /\ request.prompt = PolitePrompt
    /\ md5(<<PolitePrompt, "devops">>) \in DOMAIN optimizer.prompt_optimizer.optimization_cache.cache
    /\ optimizer.prompt_optimizer.optimization_cache.cache[md5(<<PolitePrompt, "devops">>)]
           .optimized_prompt # PolitePrompt
    /\ request.returned[1].optimized_request[1].prompt = PolitePrompt

\* C11: the fallback of a failed optimize_request carries the context as the
\* caller gave it, whatever the stage that raised, a stage after a successful
\* compression included.
C11_FallbackKeepsContext ==
    Failed => request.returned[1].optimized_request[1].context = request.context

\* the last call was a miss
Missed ==
    /\ request.returned # Nothing
    /\ request.returned[1].optimized_request # Nothing
    /\ request.returned[1].optimized_request[1].cache_key # Nothing

\* the key the last call returned
ReturnedKey == request.returned[1].optimized_request[1].cache_key[1]

\* the global cache holds an entry for key that has not expired
StoredFresh(key) ==
    /\ key \in DOMAIN optimizer.global_cache.cache
    /\ Fresh(optimizer.global_cache, key, Seconds(now))

\* this step is a call of optimize_request with the arguments of the last call
SameCallAgain ==
    /\ optimizer'.performance_monitor.metrics_history
           # optimizer.performance_monitor.metrics_history
    /\ request'.prompt = request.prompt
    /\ request'.context = request.context
    /\ request'.domain = request.domain
    /\ request'.enable_compression = request.enable_compression
    /\ request'.fault = request.fault

\* C12: after a miss that returned key K and a cache_response(K, r), the empty
\* text included, the same call made again while the entry is in the cache and
\* fresh is a hit that returns r.
C12_RoundTrip ==
    [][(Missed /\ StoredFresh(ReturnedKey) /\ SameCallAgain) =>
           /\ request'.returned[1].cache_hit = TRUE
           /\ request'.returned[1].response = Some(optimizer.global_cache.cache[ReturnedKey])]_vars

\* this step is a call of optimize_request
OptimizeStep ==
    optimizer'.performance_monitor.metrics_history
        # optimizer.performance_monitor.metrics_history

\* the metric this step appended
NewestMetric ==
    optimizer'.performance_monitor.metrics_history[
        Len(optimizer'.performance_monitor.metrics_history)]

\* global_cache.get found a fresh entry in this step: it counted a hit
LookupHit == optimizer'.global_cache.stats.hits = optimizer.global_cache.stats.hits + 1

\* the context this step's call works on after step 2
FinalContext ==
    IF request'.enable_compression /\ TextLen(request'.context) > CompressionThreshold
    THEN optimizer'.context_compressor.compression_cache
             .cache[md5(<<request'.context, TargetReduction>>)].compressed
    ELSE request'.context

\* the prompt this step's call works on after step 1
FinalPrompt ==
    optimizer'.prompt_optimizer.optimization_cache
        .cache[md5(<<request'.prompt, request'.domain>>)].optimized_prompt

\* the shape of a hit: the cached response, no optimized request, a success
\* metric that counts as a cache hit
HitOutcome ==
    /\ request'.returned[1].cache_hit = TRUE
    /\ request'.returned[1].optimized_request = Nothing
    /\ request'.returned[1].response # Nothing
    /\ md5(<<FinalPrompt, FinalContext, request'.domain>>) \in DOMAIN optimizer.global_cache.cache
    /\ request'.returned[1].response[1]
           = optimizer.global_cache.cache[md5(<<FinalPrompt, FinalContext, request'.domain>>)]
    /\ NewestMetric.success = TRUE
    /\ NewestMetric.cache_hit = TRUE

\* the shape of a miss: the optimized request, no response, a success metric
\* that counts as a miss
MissOutcome ==
    /\ request'.returned[1].cache_hit = FALSE
    /\ request'.returned[1].response = Nothing
    /\ request'.returned[1].optimized_request
           = Some([prompt |-> FinalPrompt, context |-> FinalContext,
                   domain |-> request'.domain,
                   cache_key |-> Some(md5(<<FinalPrompt, FinalContext, request'.domain>>))])
    /\ NewestMetric.success = TRUE
    /\ NewestMetric.cache_hit = FALSE

\* C13: a call of optimize_request that does not fail ends as a hit when the
\* global cache lookup finds the entry and as a miss when it does not, each with
\* its shape and its success metric; the first call on a new optimizer is a miss.
C13_HitOrMiss ==
    [][(OptimizeStep /\ request'.returned[1].optimization_results.error = Nothing) =>
           /\ IF LookupHit THEN HitOutcome ELSE MissOutcome
           /\ optimizer = CursorAIOptimizer => MissOutcome]_vars

\* the condition of step 2 for the last call
CompressionDue ==
    request.enable_compression /\ TextLen(request.context) > CompressionThreshold

\* C14: optimize_request runs the compressor and lists "context_compression"
\* exactly when enable_compression is set and the context is longer than 5000
\* characters; otherwise the context goes unchanged into the optimized request
\* and the cache key.  (The compressor stores every context it is run on.)
C14_CompressionGate ==
    /\ \A key \in DOMAIN optimizer.context_compressor.compression_cache.cache :
           TextLen(key[1]) > CompressionThreshold
    /\ (request.returned # Nothing /\ ~Failed) =>
           /\ InDeque(request.returned[1].optimization_results.optimizations_applied,
                      "context_compression") <=> CompressionDue
           /\ request.returned[1].optimization_results.context_compression # Nothing
                  <=> CompressionDue
           /\ (~CompressionDue /\ Missed) =>
                  /\ request.returned[1].optimized_request[1].context = request.context
                  /\ request.returned[1].optimized_request[1].cache_key
                         = Some(md5(<<request.returned[1].optimized_request[1].prompt,
                                      request.context, request.domain>>))

\* a call with compression enabled and a context of exactly 5000 characters
\* returned the context as it was given
C14_Witness ==
    /\ Missed
    /\ request.enable_compression
    /\ request.context = BoundaryContext
    /\ TextLen(request.context) = CompressionThreshold
    /\ request.returned[1].optimized_request[1].context = BoundaryContext
    /\ ~InDeque(request.returned[1].optimization_results.optimizations_applied,
                "context_compression")

\* the number of get calls a cache has counted
Lookups(c) == c.stats.hits + c.stats.misses

\* the stages of optimize_request that consulted their cache in this step
PromptRan ==
    Lookups(optimizer'.prompt_optimizer.optimization_cache)
        # Lookups(optimizer.prompt_optimizer.optimization_cache)
CompressorRan ==
    Lookups(optimizer'.context_compressor.compression_cache)
        # Lookups(optimizer.context_compressor.compression_cache)
LookupRan == Lookups(optimizer'.global_cache) # Lookups(optimizer.global_cache)

\* the tags of a call that did not fail, in the order of the stages
ExpectedTags ==
    <<"prompt_optimization">>
    \o (IF CompressionDue' THEN <<"context_compression">> ELSE <<>>)
    \o (IF request'.returned[1].cache_hit THEN <<"cache_hit">> ELSE <<>>)

\* C15: a call of optimize_request goes through its stages in the fixed order
\* prompt optimization, compression or skip, key derivation, lookup, each at most
\* once: a later stage runs only after the earlier ones, the key is derived from
\* the optimized prompt, the final context and the domain, and
\* optimizations_applied lists the tags in that order.
C15_StagesInOrder ==
    [][OptimizeStep =>
           /\ Lookups(optimizer'.prompt_optimizer.optimization_cache)
                  <= Lookups(optimizer.prompt_optimizer.optimization_cache) + 1
           /\ Lookups(optimizer'.context_compressor.compression_cache)
                  <= Lookups(optimizer.context_compressor.compression_cache) + 1
           /\ Lookups(optimizer'.global_cache) <= Lookups(optimizer.global_cache) + 1
           /\ CompressorRan => PromptRan
           /\ LookupRan => (PromptRan /\ (CompressionDue' => CompressorRan))
           /\ request'.returned[1].optimization_results.error = Nothing =>
                  /\ PromptRan /\ LookupRan
                  /\ request'.returned[1].optimization_results.optimizations_applied
                         = ExpectedTags
                  /\ IF request'.returned[1].cache_hit
                     THEN md5(<<FinalPrompt, FinalContext, request'.domain>>)
                              \in DOMAIN optimizer.global_cache.cache
                     ELSE request'.returned[1].optimized_request[1].cache_key
                              = Some(md5(<<FinalPrompt, FinalContext, request'.domain>>))]_vars

\* a call that went through every stage: rewritten prompt, compressed context,
\* and a hit on the key derived from both
C15_Witness ==
    /\ request.returned # Nothing
    /\ request.returned[1].cache_hit
    /\ request.prompt = PolitePrompt
    /\ request.context = LongContext
    /\ request.returned[1].optimization_results.optimizations_applied
           = <<"prompt_optimization", "context_compression", "cache_hit">>


(* ---------------------------------------------------------------------- *)
(* The prompt optimizer and the context compressor called on their own.   *)
(* ---------------------------------------------------------------------- *)
CapitalPrompt == << <<"Could you", "please", "analyze", "my", "pipeline">> >>
EmptyContext == <<>>
\* one line of more than 5000 characters that names a metric, an error and a
\* recommendation
CrowdedContext == << <<LongBlock, "cpu", "error", "recommend">> >>

Prompts == {EmptyPrompt, PlainPrompt, PolitePrompt, CapitalPrompt}
Domains == {"devops", "sre"}
Contexts == {EmptyContext, ShortContext, LongContext, CrowdedContext}

\* the cache lookups the two components have made
ComponentLookups ==
    Lookups(optimizer.prompt_optimizer.optimization_cache)
        + Lookups(optimizer.context_compressor.compression_cache)

OptimizePrompt(prompt, domain) ==
    /\ ComponentLookups < MaxGets
    /\ LET r == optimize_prompt(optimizer.prompt_optimizer, prompt, domain, Seconds(now))
       IN  /\ optimizer' = [optimizer EXCEPT !.prompt_optimizer = r.state]
           /\ answer' = Answer("optimize_prompt", prompt, domain, r)
    /\ UNCHANGED <<lru, now, last, threaded, request, monitoring>>

Compress(context) ==
    /\ ComponentLookups < MaxGets
    /\ LET r == compress_context(optimizer.context_compressor, context, Seconds(now))
       IN  /\ optimizer' = [optimizer EXCEPT !.context_compressor = r.state]
           /\ answer' = Answer("compress_context", context, None, r)
    /\ UNCHANGED <<lru, now, last, threaded, request, monitoring>>

NextComponents ==
    \/ \E prompt \in Prompts, domain \in Domains : OptimizePrompt(prompt, domain)
    \/ \E context \in Contexts : Compress(context)
    \/ TickPipeline

SpecComponents == InitPipeline /\ [][NextComponents]_vars

\* the last call was optimize_prompt (compress_context) and it returned
PromptReturned == answer.op = "optimize_prompt" /\ answer.raised = NoError
CompressReturned == answer.op = "compress_context" /\ answer.raised = NoError

\* this step is a call of optimize_prompt with the arguments of the last call,
\* which returned, while what that call stored is still cached and has not expired
SamePromptAgain ==
    /\ PromptReturned
    /\ OptimizePrompt(answer.text, answer.domain)
    /\ md5(<<answer.text, answer.domain>>)
           \in DOMAIN optimizer.prompt_optimizer.optimization_cache.cache
    /\ Fresh(optimizer.prompt_optimizer.optimization_cache,
             md5(<<answer.text, answer.domain>>), Seconds(now))

\* C16: a call of the prompt optimizer that repeats the last one, while that
\* one's result is still cached, returns the same text and the same metrics; it
\* is served from the cache: the cache counts one more hit and no more misses,
\* holds the same entries as before, and no rewrite is recorded in the history.
C16_RepeatServedFromCache ==
    [][SamePromptAgain =>
          /\ answer'.raised = NoError
          /\ answer'.ret = answer.ret
          /\ optimizer'.prompt_optimizer.optimization_cache.stats.hits
                 = optimizer.prompt_optimizer.optimization_cache.stats.hits + 1
          /\ optimizer'.prompt_optimizer.optimization_cache.stats.misses
                 = optimizer.prompt_optimizer.optimization_cache.stats.misses
          /\ optimizer'.prompt_optimizer.optimization_cache.cache
                 = optimizer.prompt_optimizer.optimization_cache.cache
          /\ optimizer'.prompt_optimizer.performance_history
                 = optimizer.prompt_optimizer.performance_history]_vars

\* the polite prompt was optimized twice: one miss, one hit, one entry, one
\* rewrite on record
C16_Witness ==
    /\ PromptReturned
    /\ answer.text = PolitePrompt
    /\ optimizer.prompt_optimizer.optimization_cache.stats.hits = 1
    /\ optimizer.prompt_optimizer.optimization_cache.stats.misses = 1
    /\ Size(optimizer.prompt_optimizer.optimization_cache) = 1
    /\ Len(optimizer.prompt_optimizer.performance_history) = 1

\* C17: the text the prompt optimizer returns mentions no politeness phrase,
\* in whatever letter case the prompt wrote it, and a devops prompt that does
\* not mention JSON comes back with the JSON instruction appended.
C17_PolitenessRemoved ==
    PromptReturned =>
        /\ \A i \in 1..Len(redundant_phrases) : ~Mentions(answer.ret[1][1], redundant_phrases[i])
        /\ answer.domain = "devops" => Mentions(answer.ret[1][1], "json")

\* C18: the prompt optimizer called with the empty prompt returns, with a
\* compression ratio of 0.
C18_EmptyPromptReturns ==
    answer.op = "optimize_prompt" /\ answer.text = EmptyPrompt =>
        /\ answer.raised = NoError
        /\ answer.ret # Nothing
        /\ answer.ret[1][2].compression_ratio[1] = 0

\* C19: for a context of more than 5000 characters the compressor returns a
\* text that is no longer than the context.
C19_NeverLonger ==
    CompressReturned /\ TextLen(answer.text) > CompressionThreshold =>
        TextLen(answer.ret[1][1]) <= TextLen(answer.text)

\* C20: the compressor returns a text with its metrics for every context, the
\* empty one included, and never raises.
C20_CompressTotal ==
    answer.op = "compress_context" => answer.raised = NoError /\ answer.ret # Nothing


(* ---------------------------------------------------------------------- *)
(* The performance monitor: record_metric called from two threads, line   *)
(* by line, on a new monitor and on one that is one metric short of its   *)
(* capacity.                                                              *)
(* ---------------------------------------------------------------------- *)
\* a metric as a caller builds it; memory_usage carries the number of the call
Measured(operation, number, duration, timestamp) ==
    [PerformanceMetrics(operation, FALSE, timestamp, TRUE, Nothing)
        EXCEPT !.duration = duration, !.memory_usage = number]

\* the history after n earlier calls
Warmed(n) == [i \in 1..n |-> Measured("warmup", i, 0, 0)]

RecordedDurations == {0, 6}            \* below and above the alert threshold of 5.0

\* every metric given to record_metric so far, in the order of the appends
Log == recorded.before \o recorded.since

\* the record_metric calls made since the start
Calls == Len(recorded.since) + Cardinality({t \in Threads : recorder[t].pc \in {"with", "l517"}})

\* record_metric is called
CallRecord(t, duration) ==
    /\ recorder[t].pc = "idle"
    /\ Calls < MaxRecords
    /\ recorder' = [recorder EXCEPT ![t] =
           [IdleRecorder EXCEPT
               !.pc = "with",
               !.metric = Some(Measured(t, Len(recorded.before) + Calls + 1, duration,
                                        Seconds(now)))]]
    /\ UNCHANGED <<lru, now, last, threaded, pipeline, monitor_lock, recorded, reading>>

\* line 516, with self._lock: the thread waits until the lock is free
EnterRecord(t) ==
    /\ recorder[t].pc = "with"
    /\ monitor_lock = None
    /\ monitor_lock' = t
    /\ recorder' = [recorder EXCEPT ![t].pc = "l517"]
    /\ UNCHANGED <<lru, now, last, threaded, pipeline, recorded, reading>>

\* line 517, self.metrics_history.append(metric)
AppendRecord(t) ==
    /\ recorder[t].pc = "l517"
    /\ optimizer' = [optimizer EXCEPT !.performance_monitor =
                                         record_metric(@, recorder[t].metric[1])]
    /\ recorded' = [recorded EXCEPT !.since = Append(@, recorder[t].metric[1])]
    /\ recorder' = [recorder EXCEPT ![t].pc = "l518"]
    /\ UNCHANGED <<lru, now, last, threaded, request, answer, monitor_lock, reading>>

\* line 518, self._check_alerts(metric), which only logs, and the end of the
\* with block
LeaveRecord(t) ==
    /\ recorder[t].pc = "l518"
    /\ monitor_lock' = None
    /\ recorder' = [recorder EXCEPT ![t] = IdleRecorder]
    /\ UNCHANGED <<lru, now, last, threaded, pipeline, recorded, reading>>

InitRecorder ==
    /\ lru = LRUCache(1, 2)
    /\ now = 0
    /\ last = Call("init", None, Returned, Nothing)
    /\ lock = None
    /\ cache_lock = Unlocked
    /\ frame = [t \in Threads |-> IdleFrame]
    /\ serial = lru
    /\ request = NoRequest
    /\ answer = NoAnswer
    /\ monitor_lock = None
    /\ recorder = [t \in Threads |-> IdleRecorder]
    /\ reading = Nothing
    /\ \E history \in {<<>>, Warmed(MetricsHistoryMaxlen - 1)} :
          /\ optimizer = [CursorAIOptimizer EXCEPT
                              !.performance_monitor.metrics_history = history]
          /\ recorded = [before |-> history, since |-> <<>>]

NextRecorder ==
    \/ \E t \in Threads, duration \in RecordedDurations : CallRecord(t, duration)
    \/ \E t \in Threads : EnterRecord(t) \/ AppendRecord(t) \/ LeaveRecord(t)

SpecRecorder == InitRecorder /\ [][NextRecorder]_vars

\* C21: after any interleaving of record_metric calls the history holds the
\* last min(n, 10000) of the n metrics appended so far, in the order of the
\* appends; a call that has passed line 517 has its metric in the log exactly
\* once and a call that has not has it nowhere; only the thread inside the with
\* block owns the lock, so a waiting caller is let in as soon as that thread
\* leaves.
C21_RingBuffer ==
    LET history == optimizer.performance_monitor.metrics_history
        kept == IF Len(Log) < MetricsHistoryMaxlen THEN Len(Log) ELSE MetricsHistoryMaxlen
    IN  /\ Len(history) = kept
        /\ history = SubSeq(Log, Len(Log) - kept + 1, Len(Log))
        /\ \A t \in Threads :
               /\ recorder[t].pc \in {"with", "l517"} => Count(Log, recorder[t].metric[1]) = 0
               /\ recorder[t].pc = "l518" => Count(Log, recorder[t].metric[1]) = 1
               /\ recorder[t].pc \in {"l517", "l518"} <=> monitor_lock = t
        /\ \A i \in 1..Len(recorded.since) : Count(Log, recorded.since[i]) = 1

\* both threads have recorded a metric on the monitor that was one short of
\* its capacity: the oldest metric is gone and the two new ones are the last
C21_Witness ==
    /\ Len(recorded.before) = MetricsHistoryMaxlen - 1
    /\ Len(recorded.since) = 2
    /\ recorded.since[1].operation # recorded.since[2].operation
    /\ \A t \in Threads : recorder[t].pc = "idle"
    /\ Len(optimizer.performance_monitor.metrics_history) = MetricsHistoryMaxlen
    /\ optimizer.performance_monitor.metrics_history[1] = recorded.before[2]
    /\ optimizer.performance_monitor.metrics_history[MetricsHistoryMaxlen] = recorded.since[2]


(* ---------------------------------------------------------------------- *)
(* The performance monitor: record_metric and get_performance_summary     *)
(* called one after the other on histories of 0, 21, 100 and 101 metrics. *)
(* ---------------------------------------------------------------------- *)
Ascending(n) == [i \in 1..n |-> i]
Descending(n) == [i \in 1..n |-> n + 1 - i]

\* the history after calls with these durations, made at time 0
Timed(response_times) ==
    [i \in 1..Len(response_times) |-> Measured("request", i, response_times[i], 0)]

SummaryHistories ==
    {<<>>, Timed(Descending(21)), Timed(Ascending(100)), Timed(Descending(101))}
SummaryDurations == {0, 200}
Windows == {CompressionCacheTtl, DefaultWindow}

Record(duration) ==
    /\ monitor_lock = None
    /\ Len(recorded.since) < MaxRecords
    /\ LET metric == Measured("record", Len(Log) + 1, duration, Seconds(now))
       IN  /\ optimizer' = [optimizer EXCEPT !.performance_monitor = record_metric(@, metric)]
           /\ recorded' = [recorded EXCEPT !.since = Append(@, metric)]
    /\ UNCHANGED <<lru, now, last, threaded, request, answer, monitor_lock, recorder, reading>>

Summary(time_window) ==
    /\ monitor_lock = None
    /\ reading' = Some(get_performance_summary(optimizer.performance_monitor, Seconds(now),
                                               time_window))
    /\ UNCHANGED <<lru, now, last, threaded, pipeline, monitor_lock, recorder, recorded>>

InitSummary ==
    /\ lru = LRUCache(1, 2)
    /\ now = 0
    /\ last = Call("init", None, Returned, Nothing)
    /\ lock = None
    /\ cache_lock = Unlocked
    /\ frame = [t \in Threads |-> IdleFrame]
    /\ serial = lru
    /\ request = NoRequest
    /\ answer = NoAnswer
    /\ monitor_lock = None
    /\ recorder = [t \in Threads |-> IdleRecorder]
    /\ reading = Nothing
    /\ \E history \in SummaryHistories :
          /\ optimizer = [CursorAIOptimizer EXCEPT
                              !.performance_monitor.metrics_history = history]
          /\ recorded = [before |-> history, since |-> <<>>]

NextSummary ==
    \/ \E duration \in SummaryDurations : Record(duration)
    \/ \E time_window \in Windows : Summary(time_window)
    \/ TickPipeline

SpecSummary == InitSummary /\ [][NextSummary]_vars

\* the durations of the metrics of the history whose timestamp is in the window
InWindow(time_window) ==
    durations(SelectSeq(optimizer.performance_monitor.metrics_history,
                        LAMBDA m : Seconds(now) - time_window <= m.timestamp))

NumericFields ==
    {"total_requests", "successful_requests", "success_rate", "cache_hit_rate",
     "avg_response_time", "min_response_time", "max_response_time",
     "p95_response_time", "p99_response_time"}

\* the elements of data that are less than v, and those that are at most v
Below(data, v) == Cardinality({i \in 1..Len(data) : data[i] < v})
AtMost(data, v) == Cardinality({i \in 1..Len(data) : data[i] <= v})

\* v is the element at the 0-based index of data sorted ascending
AtIndex(data, index, v) == Below(data, v) <= index /\ index < AtMost(data, v)

\* the index the percentile p selects among n values
Rank(p, n) == IF (p * n) \div 100 < n - 1 THEN (p * n) \div 100 ELSE n - 1

\* C22: get_performance_summary over a history without a metric in the window
\* returns the no-data dictionary, which has none of the numeric fields; with a
\* metric in the window it returns the numeric summary of exactly the metrics
\* in the window.
C22_NoDataIsExplicit ==
    [][\A w \in Windows : Summary(w) => \A data \in {InWindow(w)} :
          IF data = <<>>
          THEN /\ "error" \in DOMAIN reading'[1]
               /\ DOMAIN reading'[1] \cap NumericFields = {}
          ELSE /\ NumericFields \subseteq DOMAIN reading'[1]
               /\ "error" \notin DOMAIN reading'[1]
               /\ reading'[1].total_requests = Len(data)
               /\ reading'[1].avg_response_time = <<sum(data), Len(data)>>
               /\ AtIndex(data, 0, reading'[1].min_response_time)
               /\ AtIndex(data, Len(data) - 1, reading'[1].max_response_time)]_vars

\* a summary at the moment the 21 metrics of time 0 are exactly one window old
\* counts them all, and a later one of the same history reports no data
C22_Witness ==
    /\ reading # Nothing
    /\ recorded.since = <<>>
    /\ Len(recorded.before) = 21
    /\ \/ now = 1 /\ "error" \notin DOMAIN reading[1] /\ reading[1].total_requests = 21
       \/ now = 2 /\ "error" \in DOMAIN reading[1]

\* C23: the p95 and the p99 of a summary are the elements at index
\* min(floor(p * n / 100), n - 1) of the n durations in the window sorted
\* ascending; each is one of these durations and min <= p95 <= p99 <= max.
C23_PercentileIndex ==
    [][\A w \in Windows : Summary(w) => \A data \in {InWindow(w)} : data # <<>> =>
          /\ AtIndex(data, Rank(95, Len(data)), reading'[1].p95_response_time)
          /\ AtIndex(data, Rank(99, Len(data)), reading'[1].p99_response_time)
          /\ reading'[1].min_response_time <= reading'[1].p95_response_time
          /\ reading'[1].p95_response_time <= reading'[1].p99_response_time
          /\ reading'[1].p99_response_time <= reading'[1].max_response_time]_vars

\* a summary of 101 durations, where neither percentile is the maximum
C23_Witness ==
    /\ reading # Nothing
    /\ "error" \notin DOMAIN reading[1]
    /\ reading[1].total_requests = 101
    /\ reading[1].p95_response_time < reading[1].p99_response_time
    /\ reading[1].p99_response_time < reading[1].max_response_time

\* C24: the summary of exactly 100 metrics in the window with the durations
\* 1, 2, ..., 100 reports a p95 of 95.
C24_P95OfHundred ==
    [][\A w \in Windows : Summary(w) /\ InWindow(w) = Ascending(100) =>
          reading'[1].p95_response_time = 95]_vars


(* ---------------------------------------------------------------------- *)
(* The optimizer instance with its upkeep: optimize_request,              *)
(* cache_response with any key the caller may pass, get_performance_stats *)
(* and cleanup_resources.                                                 *)
(* ---------------------------------------------------------------------- *)
\* a request that is optimized and one that fails
UpkeepRequests ==
    {<<PolitePrompt, LongContext, "devops", TRUE, NoError>>,
     <<EmptyPrompt, ShortContext, "devops", TRUE, NoError>>}

\* the keys a caller passes: None, '' and the cache_key of the last result
CallerKeys ==
    {Nothing, Some(EmptyKey)}
        \cup (IF request.returned # Nothing /\ request.returned[1].optimized_request # Nothing
              THEN {request.returned[1].optimized_request[1].cache_key}
              ELSE {})

\* cache_response(cache_key, response); answer notes the call and its key
CacheUnder(cache_key, response) ==
    /\ cache_key \in CallerKeys
    /\ optimizer' = cache_response(optimizer, cache_key, response, Seconds(now))
    /\ answer' = Answer("cache_response", cache_key, None, Outcome(Nothing, Nothing, NoError))
    /\ UNCHANGED <<lru, now, last, threaded, request, monitoring>>

Statistics ==
    /\ LET r == get_performance_stats(optimizer, Seconds(now))
       IN  /\ optimizer' = r.state
           /\ reading' = r.ret
    /\ UNCHANGED <<lru, now, last, threaded, request, answer, monitor_lock, recorder, recorded>>

NextUpkeep ==
    \/ \E r \in UpkeepRequests : Optimize(r[1], r[2], r[3], r[4], r[5])
    \/ \E cache_key \in CallerKeys : CacheUnder(cache_key, "response")
    \/ Statistics
    \/ Cleanup
    \/ TickPipeline

SpecUpkeep == InitPipeline /\ [][NextUpkeep]_vars

\* the three caches of the optimizer
PromptCache == optimizer.prompt_optimizer.optimization_cache
CompressorCache == optimizer.context_compressor.compression_cache
GlobalCache == optimizer.global_cache

C26_CacheResponseFrame ==
    [][\A cache_key \in CallerKeys : CacheUnder(cache_key, "response") =>
          IF cache_key = Nothing \/ cache_key = Some(EmptyKey)
          THEN optimizer' = optimizer
          ELSE /\ optimizer'.prompt_optimizer = optimizer.prompt_optimizer
               /\ optimizer'.context_compressor = optimizer.context_compressor
               /\ optimizer'.performance_monitor = optimizer.performance_monitor
               /\ DOMAIN GlobalCache'.cache = DOMAIN GlobalCache.cache \cup {cache_key[1]}
               /\ GlobalCache'.cache[cache_key[1]] = "response"
               /\ GlobalCache'.timestamps[cache_key[1]] = Seconds(now)
               /\ \A k \in DOMAIN GlobalCache.cache \ {cache_key[1]} :
                      /\ GlobalCache'.cache[k] = GlobalCache.cache[k]
                      /\ GlobalCache'.timestamps[k] = GlobalCache.timestamps[k]
               /\ GlobalCache'.stats = GlobalCache.stats]_vars

\* the fallback of a failed call was passed on to cache_response, key None,
\* and no cache holds an entry
C26_Witness ==
    /\ Failed
    /\ request.returned[1].optimized_request[1].cache_key = Nothing
    /\ answer.op = "cache_response" /\ answer.text = Nothing
    /\ Size(PromptCache) = 0 /\ Size(CompressorCache) = 0 /\ Size(GlobalCache) = 0

\* C27: get_performance_stats leaves the optimizer as it was, every cache's
\* mapping, access order, timestamps and counters and both histories; what it
\* reports for a cache are that cache's counters and its size.
C27_StatsReadOnly ==
    [][Statistics =>
          /\ optimizer' = optimizer
          /\ \A c \in {<<"prompt_optimizer_cache", PromptCache>>,
                        <<"context_compressor_cache", CompressorCache>>,
                        <<"global_cache", GlobalCache>>} :
                 /\ reading'[1][c[1]].hits = c[2].stats.hits
                 /\ reading'[1][c[1]].misses = c[2].stats.misses
                 /\ reading'[1][c[1]].evictions = c[2].stats.evictions
                 /\ reading'[1][c[1]].expired = c[2].stats.expired
                 /\ reading'[1][c[1]].cache_size = Size(c[2])]_vars

\* statistics were read after a hit: the report shows the global cache's hit
\* and miss and its one entry
C27_Witness ==
    /\ reading # Nothing
    /\ reading[1].global_cache.hits = 1
    /\ reading[1].global_cache.misses = 1
    /\ reading[1].global_cache.cache_size = 1
    /\ reading[1].performance_summary.total_requests = 2
    /\ GlobalCache.stats.hits = 1

\* C29: a call of optimize_request adds no key to the global cache and changes
\* no response stored there; the keys of the global cache grow only in a
\* cache_response step; and when the last call missed and its key is not in
\* the global cache, the same call made again misses again, with the same key.
C29_MissStoresNothing ==
    [][/\ OptimizeStep =>
             /\ DOMAIN GlobalCache'.cache \subseteq DOMAIN GlobalCache.cache
             /\ \A k \in DOMAIN GlobalCache'.cache : GlobalCache'.cache[k] = GlobalCache.cache[k]
       /\ \/ DOMAIN GlobalCache'.cache \subseteq DOMAIN GlobalCache.cache
          \/ \E cache_key \in CallerKeys : CacheUnder(cache_key, "response")
       /\ (Missed /\ ReturnedKey \notin DOMAIN GlobalCache.cache /\ SameCallAgain) =>
             /\ Missed'
             /\ ~request'.returned[1].cache_hit
             /\ ReturnedKey' = ReturnedKey
             /\ Size(GlobalCache') = Size(GlobalCache)]_vars

\* the same request was made twice and no response was stored in between:
\* two misses, no hit, and a global cache without an entry
C29_Witness ==
    /\ Missed
    /\ request.prompt = PolitePrompt
    /\ GlobalCache.stats.misses = 2
    /\ GlobalCache.stats.hits = 0
    /\ Size(GlobalCache) = 0
    /\ Len(optimizer.performance_monitor.metrics_history) = 2


(* ---------------------------------------------------------------------- *)
(* The counters of one cache instance.                                    *)
(* ---------------------------------------------------------------------- *)
\* C28: no step makes hits, misses, evictions or expired smaller, a clear
\* included; every get adds exactly 1 to hits + misses and no other step
\* changes the sum, so it is the number of get calls made; get_stats reports
\* the hit rate hits / (hits + misses), and 0 while no get has been made.
C28_CountersOnlyGrow ==
    [][/\ lru'.stats.hits >= lru.stats.hits
       /\ lru'.stats.misses >= lru.stats.misses
       /\ lru'.stats.evictions >= lru.stats.evictions
       /\ lru'.stats.expired >= lru.stats.expired
       /\ lru'.stats.hits + lru'.stats.misses
             = lru.stats.hits + lru.stats.misses + (IF \E key \in Keys : Get(key) THEN 1 ELSE 0)
       /\ Stats =>
             /\ last'.report[1].hits = lru.stats.hits
             /\ last'.report[1].misses = lru.stats.misses
             /\ last'.report[1].hit_rate =
                    IF lru.stats.hits + lru.stats.misses = 0 THEN <<0, 1>>
                    ELSE <<lru.stats.hits, lru.stats.hits + lru.stats.misses>>]_vars

\* a cache that counted a hit and a miss was cleared: no entry, both counted
C28_Witness ==
    /\ last.op = "clear"
    /\ Size(lru) = 0
    /\ lru.stats.hits = 1
    /\ lru.stats.misses = 1


(* ---------------------------------------------------------------------- *)
(* Two threads on the state the components share: record_metric,         *)
(* optimize_prompt with its lookup, its insert and its history append,    *)
(* and _get_memory_usage, line by line.  A call of a cache method holds   *)
(* that cache's lock from its first line to its last, so it is one step.  *)
(* ---------------------------------------------------------------------- *)
\* lines 143-148 of optimize_prompt: the lookup, one call of optimization_cache.get;
\* on a hit the cached pair is returned, on a miss the thread goes on to rewrite
LookupPrompt(t, prompt, domain) ==
    /\ recorder[t].pc = "idle"
    /\ ComponentLookups < MaxGets
    /\ LET looked == get(optimizer.prompt_optimizer.optimization_cache,
                         md5(<<prompt, domain>>), Seconds(now))
       IN  /\ optimizer' = [optimizer EXCEPT !.prompt_optimizer.optimization_cache = looked.c]
           /\ recorder' = [recorder EXCEPT ![t] =
                  IF looked.ret # Nothing
                  THEN [IdleRecorder EXCEPT
                           !.args = <<prompt, domain>>,
                           !.ret = Some(<<looked.ret[1].optimized_prompt,
                                          looked.ret[1].metrics>>)]
                  ELSE [IdleRecorder EXCEPT !.pc = "l150", !.args = <<prompt, domain>>]]
    /\ UNCHANGED <<lru, now, last, threaded, request, answer, monitor_lock, recorded, reading>>

\* lines 150-210 of optimize_prompt: the prompt is rewritten and the result is
\* cached, one call of optimization_cache.put; the thread then stands before
\* line 213 with the pair it will return
StorePrompt(t) ==
    /\ recorder[t].pc = "l150"
    /\ LET po == optimizer.prompt_optimizer
           prompt == recorder[t].args[1]
           domain == recorder[t].args[2]
           r == optimize_prompt_rewrite(
                    po, prompt, domain, Seconds(now), md5(<<prompt, domain>>),
                    apply_domain(simplify_verbose(remove_filler(remove_redundant(
                        Rewrite(prompt, <<>>), 1), 1), 1), domain))
       IN  IF r.raised # NoError
           THEN /\ recorder' = [recorder EXCEPT ![t] = IdleRecorder]
                /\ UNCHANGED optimizer
           ELSE /\ optimizer' = [optimizer EXCEPT !.prompt_optimizer.optimization_cache =
                                                      r.state.optimization_cache]
                /\ recorder' = [recorder EXCEPT
                       ![t].pc = "l213",
                       ![t].metric = Some(r.state.performance_history[
                                              Len(r.state.performance_history)]),
                       ![t].ret = r.ret]
    /\ UNCHANGED <<lru, now, last, threaded, request, answer, monitor_lock, recorded, reading>>

\* lines 213-223, self.performance_history.append(...): no lock is taken; the
\* call then returns the pair
TrackPrompt(t) ==
    /\ recorder[t].pc = "l213"
    /\ optimizer' = [optimizer EXCEPT !.prompt_optimizer.performance_history =
                        deque_append(@, recorder[t].metric[1], PerformanceHistoryMaxlen)]
    /\ recorder' = [recorder EXCEPT ![t].pc = "idle"]
    /\ UNCHANGED <<lru, now, last, threaded, request, answer, monitor_lock, recorded, reading>>

\* _get_memory_usage is called (line 743 collects garbage)
CallMemoryUsage(t) ==
    /\ recorder[t].pc = "idle"
    /\ recorder' = [recorder EXCEPT ![t] = [IdleRecorder EXCEPT !.pc = "l745"]]
    /\ UNCHANGED <<lru, now, last, threaded, pipeline, monitor_lock, recorded, reading>>

\* lines 745-747: the three lengths are read one after the other, each from
\* the component's attribute itself, and no lock is taken
ReadUsage(t) ==
    /\ recorder[t].pc \in {"l745", "l746", "l747"}
    /\ IF recorder[t].pc = "l745"
       THEN /\ recorder' = [recorder EXCEPT
                               ![t].pc = "l746",
                               ![t].usage = <<Cardinality(DOMAIN optimizer.global_cache.cache)>>]
            /\ UNCHANGED reading
       ELSE IF recorder[t].pc = "l746"
       THEN /\ recorder' = [recorder EXCEPT
                               ![t].pc = "l747",
                               ![t].usage = Append(@, Len(optimizer.prompt_optimizer
                                                              .performance_history))]
            /\ UNCHANGED reading
       ELSE /\ recorder' = [recorder EXCEPT ![t] = IdleRecorder]
            /\ reading' = Some([cache_objects |-> recorder[t].usage[1],
                                optimization_history |-> recorder[t].usage[2],
                                performance_metrics |->
                                    Len(optimizer.performance_monitor.metrics_history)])
    /\ UNCHANGED <<lru, now, last, threaded, pipeline, monitor_lock, recorded>>

NextSharing ==
    \/ \E t \in Threads, duration \in RecordedDurations : CallRecord(t, duration)
    \/ \E t \in Threads : EnterRecord(t) \/ AppendRecord(t) \/ LeaveRecord(t)
    \/ \E t \in Threads, domain \in Domains : LookupPrompt(t, PlainPrompt, domain)
    \/ \E t \in Threads : StorePrompt(t) \/ TrackPrompt(t)
    \/ \E t \in Threads : CallMemoryUsage(t) \/ ReadUsage(t)

SpecSharing == InitPipeline /\ [][NextSharing]_vars

\* the lines that read or write state the threads share
AccessLines == {"l213", "l517", "l745", "l746", "l747"}

\* the class whose attribute the line reads or writes
Owner(pc) ==
    CASE pc = "l213" -> "PromptOptimizer"      \* self.performance_history
      [] pc = "l517" -> "PerformanceMonitor"   \* self.metrics_history
      [] pc = "l745" -> "LRUCache"             \* self.global_cache.cache
      [] pc = "l746" -> "PromptOptimizer"      \* self.prompt_optimizer.performance_history
      [] pc = "l747" -> "PerformanceMonitor"   \* self.performance_monitor.metrics_history

\* the class whose method the line belongs to
Accessor(pc) ==
    CASE pc = "l213" -> "PromptOptimizer"
      [] pc = "l517" -> "PerformanceMonitor"
      [] pc \in {"l745", "l746", "l747"} -> "CursorAIOptimizer"

\* the classes whose lock the thread holds: the monitor's, inside the with
\* block of record_metric; PromptOptimizer has no lock, and a cache's lock is
\* held inside the cache's own methods only
Holding(t) == IF monitor_lock = t THEN {"PerformanceMonitor"} ELSE {}

\* C30: a thread that stands at a line reading or writing shared state holds
\* the lock of the component that owns the state, and the line belongs to
\* that component.
C30_LockedAccess ==
    \A t \in Threads :
        recorder[t].pc \in AccessLines =>
            /\ Owner(recorder[t].pc) \in Holding(t)
            /\ Accessor(recorder[t].pc) = Owner(recorder[t].pc)

(* ---------------------------------------------------------------------- *)
(* the optimization_results dictionary of a call that did not fail        *)
(* ---------------------------------------------------------------------- *)
\* C31: the optimization_results of every optimize_request that returns without
\* error, hit or miss, hold both original lengths, both final lengths, the list
\* of optimizations applied and cache_hit, and that cache_hit is the top-level
\* cache_hit of the result.
C31_ResultsComplete ==
    [][(OptimizeStep /\ request'.returned[1].optimization_results.error = Nothing) =>
           /\ request'.returned[1].optimization_results.original_prompt_length # Nothing
           /\ request'.returned[1].optimization_results.original_context_length # Nothing
           /\ request'.returned[1].optimization_results.final_prompt_length # Nothing
           /\ request'.returned[1].optimization_results.final_context_length # Nothing
           /\ request'.returned[1].optimization_results.optimizations_applied # <<>>
           /\ request'.returned[1].optimization_results.cache_hit
                  = Some(request'.returned[1].cache_hit)]_vars

(* ---------------------------------------------------------------------- *)
(* Two threads calling the operations of one optimizer and its monitor:   *)
(* the locks each call takes and releases, in the order of its code.     *)
(* What the calls compute is checked by the specifications above; here    *)
(* every branch of a call is open to it, whatever the data.               *)
(* ---------------------------------------------------------------------- *)
\* a method whose body is "with self._lock:": the lock is taken and released
Locked(component) == << <<"acquire", component>>, <<"release", component>> >>

\* optimize_prompt: optimization_cache.get (line 145), and optimization_cache.put
\* (line 210) when the lookup missed and the rewriting did not raise
optimize_prompt_steps ==
    {Locked("optimization_cache"),
     Locked("optimization_cache") \o Locked("optimization_cache")}

\* compress_context: compression_cache.get, and compression_cache.put on a miss
\* that did not raise
compress_context_steps ==
    {Locked("compression_cache"),
     Locked("compression_cache") \o Locked("compression_cache")}

\* optimize_request: optimize_prompt; compress_context when step 2 is due;
\* global_cache.get unless a stage raised before it; then record_metric, on the
\* hit path, the miss path and in the except clause alike
optimize_request_steps ==
    {prompted \o compressed \o looked \o Locked("performance_monitor") :
         prompted \in optimize_prompt_steps,
         compressed \in {<<>>} \cup compress_context_steps,
         looked \in {<<>>, Locked("global_cache")}}

\* cache_response: global_cache.put when the key is not empty
cache_response_steps == {<<>>, Locked("global_cache")}

\* get_performance_stats with a cache's lock still held while the monitor is asked
get_performance_stats_steps_holding ==
    {Locked("optimization_cache") \o Locked("compression_cache")
         \o << <<"acquire", "global_cache">>, <<"acquire", "performance_monitor">>,
               <<"release", "performance_monitor">>, <<"release", "global_cache">> >>}

\* get_performance_stats: get_stats of the three caches, get_performance_summary,
\* then _get_memory_usage, which takes no lock
get_performance_stats_steps ==
    {Locked("optimization_cache") \o Locked("compression_cache") \o Locked("global_cache")
         \o Locked("performance_monitor")}

\* cleanup_resources: clear of the three caches
cleanup_resources_steps ==
    {Locked("global_cache") \o Locked("optimization_cache") \o Locked("compression_cache")}

\* record_metric: the append and _check_alerts under the monitor's lock
record_metric_steps == {Locked("performance_monitor")}

\* get_performance_summary: the window is copied under the monitor's lock
get_performance_summary_steps == {Locked("performance_monitor")}

Operations ==
    {"optimize_request", "cache_response", "get_performance_stats", "cleanup_resources",
     "record_metric", "get_performance_summary"}

LockSteps(op) ==
    CASE op = "optimize_request" -> optimize_request_steps
      [] op = "cache_response" -> cache_response_steps
      [] op = "get_performance_stats" -> get_performance_stats_steps
      [] op = "cleanup_resources" -> cleanup_resources_steps
      [] op = "record_metric" -> record_metric_steps
      [] op = "get_performance_summary" -> get_performance_summary_steps

\* the owner of a component's _lock
LockOwner(component) ==
    IF component = "performance_monitor" THEN monitor_lock ELSE cache_lock[component]

\* thread t calls op; steps is the path the call will take
CallOperation(t, op, steps) ==
    /\ recorder[t].pc = "idle"
    /\ recorder' = [recorder EXCEPT ![t] = [IdleRecorder EXCEPT !.pc = op, !.steps = steps]]
    /\ UNCHANGED <<lru, now, last, threaded, pipeline, monitor_lock, recorded, reading>>

\* "with self._lock:" is entered once the lock is free
AcquireStep(t) ==
    /\ recorder[t].pc \in Operations
    /\ recorder[t].steps # <<>>
    /\ recorder[t].steps[1][1] = "acquire"
    /\ LockOwner(recorder[t].steps[1][2]) = None
    /\ IF recorder[t].steps[1][2] = "performance_monitor"
       THEN monitor_lock' = t /\ UNCHANGED cache_lock
       ELSE cache_lock' = [cache_lock EXCEPT ![recorder[t].steps[1][2]] = t]
            /\ UNCHANGED monitor_lock
    /\ recorder' = [recorder EXCEPT ![t].steps = Tail(@)]
    /\ UNCHANGED <<lru, now, last, lock, frame, serial, pipeline, recorded, reading>>

\* the with block is run and left: the lock is released
ReleaseStep(t) ==
    /\ recorder[t].pc \in Operations
    /\ recorder[t].steps # <<>>
    /\ recorder[t].steps[1][1] = "release"
    /\ IF recorder[t].steps[1][2] = "performance_monitor"
       THEN monitor_lock' = None /\ UNCHANGED cache_lock
       ELSE cache_lock' = [cache_lock EXCEPT ![recorder[t].steps[1][2]] = None]
            /\ UNCHANGED monitor_lock
    /\ recorder' = [recorder EXCEPT ![t].steps = Tail(@)]
    /\ UNCHANGED <<lru, now, last, lock, frame, serial, pipeline, recorded, reading>>

\* the call returns
ReturnStep(t) ==
    /\ recorder[t].pc \in Operations
    /\ recorder[t].steps = <<>>
    /\ recorder' = [recorder EXCEPT ![t] = IdleRecorder]
    /\ UNCHANGED <<lru, now, last, threaded, pipeline, monitor_lock, recorded, reading>>

\* a step of a thread that is in a call
ThreadStep(t) == AcquireStep(t) \/ ReleaseStep(t) \/ ReturnStep(t)

NextLocks ==
    \/ \E t \in Threads, op \in Operations : \E steps \in LockSteps(op) : CallOperation(t, op, steps)
    \/ \E t \in Threads : AcquireStep(t)
    \/ \E t \in Threads : ReleaseStep(t)
    \/ \E t \in Threads : ReturnStep(t)

\* every thread that can take a step of its call takes one in the end
SpecLocks ==
    InitPipeline /\ [][NextLocks]_vars /\ \A t \in Threads : WF_vars(ThreadStep(t))

\* thread t is in a call
Calling(t) == recorder[t].pc # "idle"

\* thread t stands before a lock that is taken
Waiting(t) ==
    /\ Calling(t)
    /\ recorder[t].steps # <<>>
    /\ recorder[t].steps[1][1] = "acquire"
    /\ LockOwner(recorder[t].steps[1][2]) # None

\* the locks thread t owns
HeldBy(t) ==
    {c \in DOMAIN cache_lock : cache_lock[c] = t}
        \cup (IF monitor_lock = t THEN {"performance_monitor"} ELSE {})

OperationTags == {"test_operation_0", "test_operation_1"}

\* record_metric with a metric of the given operation, cache_hit and success
RecordTagged(operation, cache_hit, success) ==
    /\ monitor_lock = None
    /\ Len(recorded.since) < MaxRecords
    /\ LET metric == [PerformanceMetrics(operation, cache_hit, Seconds(now), success, Nothing)
                          EXCEPT !.duration = 1, !.memory_usage = Len(Log) + 1]
       IN  /\ optimizer' = [optimizer EXCEPT !.performance_monitor = record_metric(@, metric)]
           /\ recorded' = [recorded EXCEPT !.since = Append(@, metric)]
    /\ UNCHANGED <<lru, now, last, threaded, request, answer, monitor_lock, recorder, reading>>

NextBreakdown ==
    \/ \E operation \in OperationTags, cache_hit \in BOOLEAN, success \in BOOLEAN :
           RecordTagged(operation, cache_hit, success)
    \/ \E time_window \in Windows : Summary(time_window)
    \/ TickPipeline

SpecBreakdown == InitPipeline /\ [][NextBreakdown]_vars

\* the positions in the history of the metrics whose timestamp is in the window
WindowPositions(time_window) ==
    {i \in 1..Len(optimizer.performance_monitor.metrics_history) :
        Seconds(now) - time_window
            <= optimizer.performance_monitor.metrics_history[i].timestamp}

\* the sum of the counts a breakdown gives for the tags
RECURSIVE SumCounts(_, _)
SumCounts(breakdown, tags) ==
    IF tags = {} THEN 0
    ELSE LET tag == CHOOSE tag \in tags : TRUE
         IN  breakdown[tag].count + SumCounts(breakdown, tags \ {tag})

\* C33: the summary of a non-empty window counts the metrics in the window,
\* among them those with success true and, for the cache hit rate, those with
\* cache_hit true; its breakdown has an entry for exactly the operations that
\* occur in the window, each counting the metrics of that operation, and the
\* counts add up to the total.
C33_CountsMatchWindow ==
    [][\A w \in Windows : Summary(w) =>
          \A history \in {optimizer.performance_monitor.metrics_history},
             window \in {WindowPositions(w)} : window # {} =>
              /\ reading'[1].total_requests = Cardinality(window)
              /\ reading'[1].successful_requests
                     = Cardinality({i \in window : history[i].success})
              /\ reading'[1].successful_requests >= 0
              /\ reading'[1].successful_requests <= reading'[1].total_requests
              /\ reading'[1].cache_hit_rate
                     = <<Cardinality({i \in window : history[i].cache_hit}),
                         Cardinality(window)>>
              /\ DOMAIN reading'[1].operations = {history[i].operation : i \in window}
              /\ \A operation \in DOMAIN reading'[1].operations :
                     reading'[1].operations[operation].count
                         = Cardinality({i \in window : history[i].operation = operation})
              /\ SumCounts(reading'[1].operations, DOMAIN reading'[1].operations)
                     = reading'[1].total_requests]_vars

\* a summary of two metrics of two operations, one of them failed and one a
\* cache hit
C33_Witness ==
    /\ reading # Nothing
    /\ "error" \notin DOMAIN reading[1]
    /\ reading[1].total_requests = 2
    /\ reading[1].successful_requests = 1
    /\ reading[1].cache_hit_rate[1] = 1
    /\ DOMAIN reading[1].operations = OperationTags

(* ---------------------------------------------------------------------- *)
(* optimize_request called with every kind of domain tag                  *)
(* ---------------------------------------------------------------------- *)
ListedDomains == {"devops", "sre", "cloud", "platform"}
UnlistedDomain == "database"           \* a tag that no branch of optimize_prompt names

NextDomains ==
    \/ \E domain \in ListedDomains \cup {UnlistedDomain, CorruptDomain} :
           Optimize(PlainPrompt, ShortContext, domain, TRUE, NoError)
    \/ TickPipeline

SpecDomains == InitPipeline /\ [][NextDomains]_vars

\* C34: an optimize_request whose domain is none of devops, sre, cloud and
\* platform ends as a failure: cache_hit false, an error message, the caller's
\* prompt in optimized_request, and a metric with success false.
C34_UnlistedDomainFails ==
    [][(OptimizeStep /\ request'.domain \notin ListedDomains) =>
           /\ request'.returned[1].cache_hit = FALSE
           /\ request'.returned[1].optimization_results.error # Nothing
           /\ request'.returned[1].optimized_request # Nothing
           /\ request'.returned[1].optimized_request[1].prompt = request'.prompt
           /\ NewestMetric.success = FALSE]_vars

(* ---------------------------------------------------------------------- *)
(* When a put evicts, and what an eviction counts.                        *)
(* ---------------------------------------------------------------------- *)
\* C35: a put takes another key out of the mapping, or counts an eviction, only
\* when its key is absent and the mapping holds maxsize entries or more; a put
\* of a present key, or of any key while there is room, leaves every other
\* entry and the evictions counter alone, and the key is then returned by every
\* get made less than ttl after the put.  A get of a present key younger than
\* ttl is a hit.
C35_EvictsOnlyWhenFull ==
    [][/\ \A k \in Keys, v \in Values : PutStep(k, v) =>
              /\ (lru'.stats.evictions # lru.stats.evictions
                     \/ ~(DOMAIN lru.cache \ {k} \subseteq DOMAIN lru'.cache))
                 => (k \notin DOMAIN lru.cache /\ Size(lru) >= lru.maxsize)
              /\ (k \in DOMAIN lru.cache \/ Size(lru) < lru.maxsize)
                 => /\ last'.raised = NoError
                    /\ lru'.stats.evictions = lru.stats.evictions
                    /\ DOMAIN lru'.cache = DOMAIN lru.cache \cup {k}
                    /\ \A j \in DOMAIN lru.cache \ {k} : lru'.cache[j] = lru.cache[j]
                    /\ \A t \in now..MaxTime :
                           t - now < lru.ttl => get(lru', k, t).ret = Some(v)
       /\ \A k \in Keys : (GetStep(k) /\ k \in DOMAIN lru.cache /\ Fresh(lru, k, now)) =>
              /\ last'.ret = Some(lru.cache[k])
              /\ lru'.stats.hits = lru.stats.hits + 1]_vars

\* maxsize distinct keys were put into the empty cache and one of them was put
\* again: nothing was evicted and both are there
C35_Witness ==
    /\ lru.maxsize = 2
    /\ Size(lru) = 2
    /\ lru.stats.evictions = 0
    /\ last.op = "put" /\ last.path = "update"
    /\ lru.cache[last.key] = 2

\* C37: the evictions counter changes only in a put, by 1, and exactly when
\* that put takes one entry out of the mapping to make room: a put that counts
\* an eviction removes exactly one key, and a put that removes a key counts it.
C37_EvictionsExact ==
    [][/\ lru'.stats.evictions # lru.stats.evictions =>
              /\ \E k \in Keys, v \in Values : PutStep(k, v)
              /\ lru'.stats.evictions = lru.stats.evictions + 1
              /\ Cardinality(DOMAIN lru.cache \ DOMAIN lru'.cache) = 1
       /\ \A k \in Keys, v \in Values :
              (PutStep(k, v) /\ DOMAIN lru.cache \ DOMAIN lru'.cache # {}) =>
                  lru'.stats.evictions = lru.stats.evictions + 1]_vars

(* ---------------------------------------------------------------------- *)
(* The metrics optimize_request records and the lookups it makes.         *)
(* ---------------------------------------------------------------------- *)
\* this step is one of the calls of optimize_request
OptimizeCall == \E r \in Requests : Optimize(r[1], r[2], r[3], r[4], r[5])

\* the metrics of calls that did not fail, and those of them that were hits
SuccessMetrics(history) == SelectSeq(history, LAMBDA m : m.success)
HitMetrics(history) == SelectSeq(history, LAMBDA m : m.success /\ m.cache_hit)

\* C36: every optimize_request appends exactly one metric, of operation
\* optimize_request, with success true unless the call failed, and looks the
\* global cache up at most once; after it the number of success metrics is the
\* global cache's hits + misses and the number of success metrics with
\* cache_hit true is the global cache's hits.
C36_OneMetricPerCall ==
    [][OptimizeCall =>
           /\ Len(optimizer'.performance_monitor.metrics_history)
                  = Len(optimizer.performance_monitor.metrics_history) + 1
           /\ NewestMetric.operation = "optimize_request"
           /\ NewestMetric.success
                  = (request'.returned[1].optimization_results.error = Nothing)
           /\ Lookups(optimizer'.global_cache) <= Lookups(optimizer.global_cache) + 1
           /\ Len(SuccessMetrics(optimizer'.performance_monitor.metrics_history))
                  = Lookups(optimizer'.global_cache)
           /\ Len(HitMetrics(optimizer'.performance_monitor.metrics_history))
                  = optimizer'.global_cache.stats.hits]_vars

(* ---------------------------------------------------------------------- *)
(* Two threads in optimize_prompt at once.                               *)
(* ---------------------------------------------------------------------- *)
NextPrompts ==
    \/ \E t \in Threads, prompt \in {PlainPrompt, PolitePrompt}, domain \in Domains :
           LookupPrompt(t, prompt, domain)
    \/ \E t \in Threads : StorePrompt(t)
    \/ \E t \in Threads : TrackPrompt(t)

SpecPrompts == InitPipeline /\ [][NextPrompts]_vars

\* thread t has returned from a call that missed and rewrote its prompt
Computed(t) ==
    /\ recorder[t].pc = "idle"
    /\ recorder[t].ret # Nothing
    /\ recorder[t].metric # Nothing

\* both threads are between their lookup, which missed, and their insert
BothMissed == \A t \in Threads : recorder[t].pc = "l150"

\* C38: when the only two calls of optimize_prompt made on a new optimizer are
\* one by each thread, with the same prompt and domain, and both missed, they
\* have returned the same optimized text, and the cache holds one entry,
\* under their key, whose node occurs once in access_order, and has counted 2
\* misses and no hit.
C38_BothMissOneEntry ==
    (/\ \A t \in Threads : Computed(t)
     /\ \A t \in Threads, u \in Threads : recorder[t].args = recorder[u].args
     /\ Lookups(PromptCache) = 2)
    => /\ \A t \in Threads, u \in Threads : recorder[t].ret[1][1] = recorder[u].ret[1][1]
       /\ \A t \in Threads :
              DOMAIN PromptCache.cache = {md5(<<recorder[t].args[1], recorder[t].args[2]>>)}
       /\ \A t \in Threads :
              PromptCache.access_order
                  = <<md5(<<recorder[t].args[1], recorder[t].args[2]>>)>>
       /\ \A t \in Threads :
              PromptCache.cache[md5(<<recorder[t].args[1], recorder[t].args[2]>>)]
                  .optimized_prompt = recorder[t].ret[1][1]
       /\ PromptCache.stats.misses = 2
       /\ PromptCache.stats.hits = 0
       /\ Len(optimizer.prompt_optimizer.performance_history) = 2

\* both threads rewrote the polite prompt for devops and returned
C38_Witness ==
    /\ \A t \in Threads : Computed(t)
    /\ \A t \in Threads : recorder[t].args = <<PolitePrompt, "devops">>
    /\ PromptCache.stats.misses = 2

(* ---------------------------------------------------------------------- *)
(* The suffixes of a devops prompt.                                       *)
(* ---------------------------------------------------------------------- *)
\* the prompt of the last optimize_prompt call as the three rewriting loops leave
\* it, before _optimize_devops_prompt appends anything
BeforeSuffixes ==
    simplify_verbose(remove_filler(remove_redundant(Rewrite(answer.text, <<>>), 1), 1), 1)
        .optimized

\* the text the last call returned carries the suffix
Carries(suffix) ==
    \E i \in 1..Len(Flatten(answer.ret[1][1])) : Flatten(answer.ret[1][1])[i] = suffix

\* C39: for domain devops each suffix is decided by the prompt as it stood
\* before any suffix: the JSON suffix is appended exactly when that prompt
\* mentions "analyze" and not "json", the actionable-solutions suffix exactly
\* when it mentions "recommend"; a prompt with "analyze" and neither "json" nor
\* "recommend" comes back with the JSON suffix only.
C39_SuffixesFromOriginalPrompt ==
    (PromptReturned /\ answer.domain = "devops") =>
        /\ Carries(JsonSuffix)
               <=> (Mentions(BeforeSuffixes, "analyze") /\ ~Mentions(BeforeSuffixes, "json"))
        /\ Carries(ActionSuffix) <=> Mentions(BeforeSuffixes, "recommend")

=============================================================================
